---- MODULE Spec2Model ----
(***************************************************************************)
(* Data folder builder (src/src/build_data_folder.py): priority list       *)
(* parser, folder-name case resolver, path normaliser, destination map     *)
(* fold, hardlink materialiser and the command line driver.                *)
(*                                                                         *)
(* Representation.  A string is a sequence of one-character strings, so    *)
(* that str.lower, str.isupper, str.strip, str.startswith and string       *)
(* comparison are computed character by character.  A relative path is the *)
(* sequence of its os.sep separated segments: os.path.join appends a       *)
(* segment and str.split(os.sep) yields the segments.                      *)
(***************************************************************************)
EXTENDS Integers, Sequences, FiniteSets, TLC

VARIABLES
    pc,              \* position of the running program
    listText,        \* modlist.txt on disk: File(text) or NoFile
    mods,            \* mods folder: source name -> tree or NoDir
    overlay,         \* the overwrite folder on disk: tree or NoDir
    ovw_arg,         \* TRUE iff an overwrite folder was passed
    out,             \* the output root on disk: NoDir or [dirs, files]
    enabled_mods,    \* build_data_folder: enabled_mods
    folder_variants, \* collect_all_folders: folder_variants
    folder_map,      \* build_data_folder: folder_map
    filemap,         \* build_data_folder: filemap, in dict insertion order
    idx,             \* loop index of the running for loop
    warned,          \* source names printed in "WARNING: Mod folder not found"
    acct,            \* build_data_folder: the override and overwrite counters
    created,         \* build_data_folder: created
    failed,          \* build_data_folder: failed
    failed_files,    \* build_data_folder: failed_files
    vanished,        \* number of origin files removed by others since the scan
    pending,         \* folder scan: directory occurrences not yet visited
    original_path,   \* normalize_path_with_map: argument
    normalized_path, \* normalize_path_with_map: result
    links,           \* symbolic links that stand at the two ShaderCache paths
    args,            \* main: parsed command line
    exit_code,       \* process exit status, NoExit while running
    snapshot,        \* the disk as it was when the program started
    finished,        \* BuildWorker: the success flags emitted by finished_signal
    steps            \* the steps around the build that have run or raised

envVars   == <<listText, mods, overlay, ovw_arg>>
foldVars  == <<enabled_mods, folder_variants, folder_map, filemap, warned, acct>>
linkVars  == <<created, failed, failed_files>>
auxVars   == <<pending, original_path, normalized_path, links>>
mainVars  == <<args, exit_code, snapshot, finished, steps>>

vars == <<pc, envVars, out, foldVars, idx, linkVars, vanished, auxVars, mainVars>>

-----------------------------------------------------------------------------
(* Bounds of the model *)

\* greatest number of lines of modlist.txt given to the parser alone
MaxLines == 4
\* greatest number of lines of modlist.txt in a build
MaxEntries == 3
\* greatest number of origin files that other processes remove during a build
MaxVanish == 1

-----------------------------------------------------------------------------
(* Characters and strings *)

Capitals == <<"A","B","C","D","E","F","G","H","I","J","K","L","M",
              "N","O","P","Q","R","S","T","U","V","W","X","Y","Z">>
Smalls   == <<"a","b","c","d","e","f","g","h","i","j","k","l","m",
              "n","o","p","q","r","s","t","u","v","w","x","y","z">>

Range(s) == {s[i] : i \in DOMAIN s}

IndexIn(s, c) == CHOOSE i \in DOMAIN s : s[i] = c

\* str.isupper of one character
IsUpperChar(c) == c \in Range(Capitals)

\* str.lower of one character
LowerChar(c) == IF c \in Range(Capitals) THEN Smalls[IndexIn(Capitals, c)] ELSE c

\* str.lower
Lower(s) == [i \in DOMAIN s |-> LowerChar(s[i])]

\* str.isspace of one character
IsSpace(c) == c \in {" ", "\n", "\t", "\r"}

\* code point of a character, for string comparison
Ord(c) ==
    IF c \in Range(Capitals) THEN 64 + IndexIn(Capitals, c)
    ELSE IF c \in Range(Smalls) THEN 96 + IndexIn(Smalls, c)
    ELSE CASE c = "\t" -> 9  [] c = "\n" -> 10 [] c = "\r" -> 13
           [] c = " "  -> 32 [] c = "*"  -> 42 [] c = "+"  -> 43
           [] c = "-"  -> 45 [] c = "."  -> 46 [] c = "["  -> 91
           [] c = "]"  -> 93

\* s < t for Python strings
RECURSIVE StrLess(_, _)
StrLess(s, t) ==
    IF t = <<>> THEN FALSE
    ELSE IF s = <<>> THEN TRUE
    ELSE IF Ord(Head(s)) # Ord(Head(t)) THEN Ord(Head(s)) < Ord(Head(t))
    ELSE StrLess(Tail(s), Tail(t))

RECURSIVE LStrip(_)
LStrip(s) == IF s # <<>> /\ IsSpace(Head(s)) THEN LStrip(Tail(s)) ELSE s

RECURSIVE RStrip(_)
RStrip(s) ==
    IF s # <<>> /\ IsSpace(s[Len(s)]) THEN RStrip(SubSeq(s, 1, Len(s) - 1)) ELSE s

\* str.strip
Strip(s) == RStrip(LStrip(s))

\* str.startswith for a one-character prefix
StartsWith(s, c) == s # <<>> /\ Head(s) = c

\* list(reversed(s))
Reversed(s) == [i \in DOMAIN s |-> s[Len(s) + 1 - i]]

\* the sequences over S of length at most n
SeqsUpTo(S, n) == UNION {[1..k -> S] : k \in 0..n}

RECURSIVE Flatten(_)
Flatten(ss) == IF ss = <<>> THEN <<>> ELSE Head(ss) \o Flatten(Tail(ss))

\* a file that does not exist, and an existing text file
NoFile == [exists |-> FALSE, text |-> <<>>]
File(text) == [exists |-> TRUE, text |-> text]

\* a directory that does not exist
NoDir == [exists |-> FALSE, files |-> {}, dirs |-> {}, dev |-> "disk"]

\* exit status of a process that is still running
NoExit == "running"

\* no symbolic link at <overwrite>/ShaderCache nor at <output>/ShaderCache;
\* a link is "none", "live" (its target directory exists) or "dangling"
NoLinks == [overlay |-> "none", out |-> "none", target |-> NoDir]

-----------------------------------------------------------------------------
(* parse_modlist *)

\* f.readlines(): the lines of a text, each with its line end
RECURSIVE ReadLinesFrom(_, _)
ReadLinesFrom(text, cur) ==
    IF text = <<>> THEN (IF cur = <<>> THEN <<>> ELSE <<cur>>)
    ELSE IF Head(text) = "\n"
         THEN <<Append(cur, "\n")>> \o ReadLinesFrom(Tail(text), <<>>)
         ELSE ReadLinesFrom(Tail(text), Append(cur, Head(text)))

readlines(text) == ReadLinesFrom(text, <<>>)

\* one iteration of the loop of parse_modlist over a raw line
ParseLine(enabled, raw) ==
    LET line == Strip(raw) IN
    IF line = <<>> THEN enabled
    ELSE IF StartsWith(line, "-") THEN enabled
    ELSE IF StartsWith(line, "+") THEN Append(enabled, Strip(Tail(line)))
    ELSE enabled

RECURSIVE ParseLoop(_, _)
ParseLoop(enabled, lines) ==
    IF lines = <<>> THEN enabled
    ELSE ParseLoop(ParseLine(enabled, Head(lines)), Tail(lines))

\* a slip: the lines are not reversed
parse_modlist_unreversed(text) == ParseLoop(<<>>, readlines(text))

\* the value parse_modlist returns for an existing file
parse_modlist(text) == ParseLoop(<<>>, Reversed(readlines(text)))

-----------------------------------------------------------------------------
(* The parser on its own: parse_modlist applied to the texts of at most     *)
(* MaxLines lines drawn from ParseLines, with or without a final line end. *)

ParseLines ==
    { <<"+","A">>, <<"-","A">>, <<"*","A">>, <<>>, <<" ","+","B"," ">>,
      <<"+"," ","C">>, <<"A">>, <<"+">> }

\* the text of a file written line by line; nl: the last line is terminated
TextOf(lines, nl) ==
    Flatten([i \in DOMAIN lines |->
                IF i < Len(lines) \/ nl THEN Append(lines[i], "\n") ELSE lines[i]])

ParseTexts == {TextOf(ls, nl) : ls \in SeqsUpTo(ParseLines, MaxLines), nl \in BOOLEAN}

\* the counters of build_data_folder as set before the fold
NoAcct ==
    [overrides |-> 0, size_overridden |-> 0, overwrite_count |-> 0,
     overwrite_overrides |-> 0, shadercache_skipped |-> 0,
     size_overridden_by_overwrite |-> 0]

\* the values of the state a specification does not use
NoDisk  == mods = <<>> /\ overlay = NoDir /\ ovw_arg = FALSE /\ out = NoDir
NoFold  == /\ enabled_mods = <<>> /\ folder_variants = <<>> /\ folder_map = <<>>
           /\ filemap = <<>> /\ warned = {} /\ acct = NoAcct
NoLink  == idx = 0 /\ created = 0 /\ failed = 0 /\ failed_files = <<>> /\ vanished = 0
NoAux   == /\ pending = {} /\ original_path = <<>> /\ normalized_path = <<>>
           /\ links = NoLinks
NoMain  == /\ args = <<>> /\ exit_code = NoExit /\ snapshot = <<>>
           /\ finished = <<>> /\ steps = {}

InitParse ==
    /\ NoDisk /\ NoFold /\ NoLink /\ NoAux /\ NoMain
    /\ pc = "parse"
    /\ listText \in {File(t) : t \in ParseTexts} \cup {NoFile}

\* parse_modlist called on a missing file: prints the error and sys.exit(1)
ParseMissing ==
    /\ pc = "parse"
    /\ ~listText.exists
    /\ pc' = "exit"
    /\ exit_code' = "1"
    /\ UNCHANGED <<envVars, out, foldVars, idx, linkVars, vanished, auxVars,
                   args, snapshot, finished, steps>>

\* parse_modlist called on an existing file
ParseFile ==
    /\ pc = "parse"
    /\ listText.exists
    /\ enabled_mods' = parse_modlist(listText.text)
    /\ pc' = "parsed"
    /\ UNCHANGED <<envVars, out, folder_variants, folder_map, filemap, warned,
                   acct, idx, linkVars, vanished, auxVars, mainVars>>

NextParse == ParseMissing \/ ParseFile

SpecParse == InitParse /\ [][NextParse]_vars

(* The lines of a text, stated by the positions of its line ends. *)
LineEnds(text) == {i \in DOMAIN text : text[i] = "\n"}

LineStarts(text) ==
    {i \in DOMAIN text : i = 1 \/ text[i - 1] = "\n"}

\* the line that starts at position a, without its line end
LineAt(text, a) ==
    LET ends == {e \in LineEnds(text) : e >= a}
        b == IF ends = {} THEN Len(text)
             ELSE (CHOOSE e \in ends : \A f \in ends : e <= f) - 1
    IN SubSeq(text, a, b)

\* s without its leading and trailing white space
Trim(s) ==
    LET ink == {i \in DOMAIN s : ~IsSpace(s[i])} IN
    IF ink = {} THEN <<>>
    ELSE SubSeq(s, CHOOSE i \in ink : \A j \in ink : i <= j,
                   CHOOSE i \in ink : \A j \in ink : i >= j)

\* the start positions of the enabled lines, those that begin with "+"
PlusStarts(text) ==
    {a \in LineStarts(text) :
        LET t == Trim(LineAt(text, a)) IN t # <<>> /\ t[1] = "+"}

\* the name an enabled line gives
NameAt(text, a) == Trim(Tail(Trim(LineAt(text, a))))

\* C4: parse_modlist returns exactly the names of the lines that begin with
\* "+", name trimmed, in reverse of file order: element k of the result is
\* the name of the k-th enabled line counted from the bottom of the file;
\* no other line contributes and duplicate names are kept.
C4_ParseReversed ==
    pc = "parsed" =>
        LET ps == PlusStarts(listText.text) IN
        /\ Len(enabled_mods) = Cardinality(ps)
        /\ \A a \in ps :
              enabled_mods[Cardinality({b \in ps : b >= a})] = NameAt(listText.text, a)

\* enabled entries [A, B, C] top to bottom, with a separator line among them,
\* have been parsed to [C, B, A]
C4_Witness ==
    /\ pc = "parsed"
    /\ enabled_mods = << <<"C">>, <<"B">>, <<"A">> >>
    /\ Cardinality(LineStarts(listText.text)) = 4
    /\ \E a \in LineStarts(listText.text) : LineAt(listText.text, a) = <<"*","A">>

-----------------------------------------------------------------------------
(* Directory trees on disk *)

Last(s) == s[Len(s)]

\* the permutations of a finite set, as sequences
RECURSIVE Perms(_)
Perms(S) ==
    IF S = {} THEN {<<>>}
    ELSE UNION {{<<x>> \o p : p \in Perms(S \ {x})} : x \in S}

\* some enumeration of a finite set
RECURSIVE SetToSeq(_)
SetToSeq(S) ==
    IF S = {} THEN <<>>
    ELSE LET x == CHOOSE y \in S : TRUE IN <<x>> \o SetToSeq(S \ {x})

\* the proper ancestor directories of the paths
ParentsOf(paths) == UNION {{SubSeq(p, 1, k) : k \in 1..(Len(p) - 1)} : p \in paths}

\* an existing directory on device dev holding the files (records of path
\* and size) and, besides their parent directories, the directories of more
DirOn(dev, files, more) ==
    [exists |-> TRUE,
     files  |-> files,
     dirs   |-> ParentsOf({f.path : f \in files}) \cup more \cup ParentsOf(more),
     dev    |-> dev]

\* the same on the device of the output root
Dir(files, more) == DirOn("disk", files, more)

Paths(tree) == {f.path : f \in tree.files}

\* the file at a path of a tree
FileAt(tree, p) == CHOOSE f \in tree.files : f.path = p

\* the files and the subdirectories directly inside directory d of a tree
FilesIn(tree, d) ==
    {p \in Paths(tree) : Len(p) = Len(d) + 1 /\ SubSeq(p, 1, Len(d)) = d}
SubdirsOf(tree, d) ==
    {q \in tree.dirs : Len(q) = Len(d) + 1 /\ SubSeq(q, 1, Len(d)) = d}

\* a slip: the match key keeps the case of the relative path
get_match_key_exact(path) == path

\* get_match_key: str.lower of the relative path
get_match_key(path) == [i \in DOMAIN path |-> Lower(path[i])]

\* the orders in which os.walk (top down) can yield the files below d: the
\* files of d in listing order, then each subdirectory in listing order
RECURSIVE WalkFiles(_, _), WalkEach(_, _)
WalkFiles(tree, d) ==
    {fs \o rest : fs \in Perms(FilesIn(tree, d)),
                  rest \in UNION {WalkEach(tree, ds) : ds \in Perms(SubdirsOf(tree, d))}}
WalkEach(tree, ds) ==
    IF ds = <<>> THEN {<<>>}
    ELSE {a \o b : a \in WalkFiles(tree, Head(ds)), b \in WalkEach(tree, Tail(ds))}

\* scan_mod_files: the lists it can return, one per enumeration order
scan_mod_files(tree) ==
    IF ~tree.exists THEN {<<>>}
    ELSE {[i \in DOMAIN w |-> [original_path |-> w[i], match_key |-> get_match_key(w[i])]] :
            w \in WalkFiles(tree, <<>>)}

-----------------------------------------------------------------------------
(* Folder name variants and the folder name map *)

\* count_uppercase
count_uppercase(s) == Cardinality({i \in DOMAIN s : IsUpperChar(s[i])})

\* folder_variants[d.lower()].add(d), creating the set when needed
AddVariant(fv, d) ==
    LET l == Lower(d) IN
    IF l \in DOMAIN fv THEN [fv EXCEPT ![l] = @ \cup {d}] ELSE fv @@ (l :> {d})

RECURSIVE AddVariants(_, _)
AddVariants(fv, names) ==
    IF names = <<>> THEN fv ELSE AddVariants(AddVariant(fv, Head(names)), Tail(names))

\* one iteration of the os.walk loop of scan_folder_for_variants, at root:
\* the names in dirs, then the parts of rel_root
VisitRoot(fv, tree, root) ==
    AddVariants(AddVariants(fv, SetToSeq({Last(q) : q \in SubdirsOf(tree, root)})), root)

RECURSIVE VisitRoots(_, _, _)
VisitRoots(fv, tree, roots) ==
    IF roots = <<>> THEN fv
    ELSE VisitRoots(VisitRoot(fv, tree, Head(roots)), tree, Tail(roots))

\* scan_folder_for_variants
scan_folder_for_variants(tree, fv) ==
    IF ~tree.exists THEN fv
    ELSE VisitRoots(fv, tree, <<<<>>>> \o SetToSeq(tree.dirs))

\* the directory of a source name under the mods folder
ModTree(mds, name) == IF name \in DOMAIN mds THEN mds[name] ELSE NoDir

RECURSIVE ScanMods(_, _, _)
ScanMods(fv, mds, names) ==
    IF names = <<>> THEN fv
    ELSE ScanMods(scan_folder_for_variants(ModTree(mds, Head(names)), fv), mds, Tail(names))

\* collect_all_folders
collect_all_folders(text, mds, given, ovl) ==
    LET fv == ScanMods(<<>>, mds, parse_modlist(text)) IN
    IF given /\ ovl.exists THEN scan_folder_for_variants(ovl, fv) ELSE fv

\* a slip: the key of max is the uppercase count alone
KeyLessCountOnly(u, v) == count_uppercase(u) < count_uppercase(v)

\* (count_uppercase(u), u) < (count_uppercase(v), v), the key of max
KeyLess(u, v) ==
    \/ count_uppercase(u) < count_uppercase(v)
    \/ count_uppercase(u) = count_uppercase(v) /\ StrLess(u, v)

\* max(seq, key=...): the first element with the greatest key
RECURSIVE PyMaxFrom(_, _)
PyMaxFrom(best, rest) ==
    IF rest = <<>> THEN best
    ELSE PyMaxFrom(IF KeyLess(best, Head(rest)) THEN Head(rest) ELSE best, Tail(rest))

\* the order in which a set is iterated, given an order of all its possible members
IterOf(S, iter) == SelectSeq(iter, LAMBDA x : x \in S)

\* build_folder_name_map; iter fixes the iteration order of the sets
build_folder_name_map(fv, iter) ==
    [l \in DOMAIN fv |->
        IF Cardinality(fv[l]) = 1 THEN Head(IterOf(fv[l], iter))
        ELSE PyMaxFrom(Head(IterOf(fv[l], iter)), Tail(IterOf(fv[l], iter)))]

\* all spellings held by a variants dict
AllVariants(fv) == UNION {fv[l] : l \in DOMAIN fv}

\* a slip: the filename is mapped like a folder
normalize_path_all_segments(path, fm) ==
    IF Len(path) > 1
    THEN [i \in DOMAIN path |->
            IF Lower(path[i]) \in DOMAIN fm THEN fm[Lower(path[i])] ELSE path[i]]
    ELSE path

\* normalize_path_with_map
normalize_path_with_map(path, fm) ==
    IF Len(path) > 1
    THEN [i \in DOMAIN path |->
            IF i < Len(path)
            THEN (IF Lower(path[i]) \in DOMAIN fm THEN fm[Lower(path[i])] ELSE path[i])
            ELSE path[i]]
    ELSE path

-----------------------------------------------------------------------------
(* Names used in the trees of the model *)

skse == <<"s","k","s","e">>
Skse == <<"S","k","s","e">>
sKse == <<"s","K","s","e">>
SKSE == <<"S","K","S","E">>
ReadMeTXT == <<"R","e","a","d","M","e",".","T","X","T">>
readmetxt == <<"r","e","a","d","m","e",".","t","x","t">>
ShaderCache == <<"S","h","a","d","e","r","C","a","c","h","e">>
shadercache == <<"s","h","a","d","e","r","c","a","c","h","e">>
SHADERCACHE == <<"S","H","A","D","E","R","C","A","C","H","E">>
OVERWRITE == <<"[","O","V","E","R","W","R","I","T","E","]">>
ModA == <<"A">>
ModB == <<"B">>
ModC == <<"C">>

F(p, n) == [path |-> p, size |-> n]

-----------------------------------------------------------------------------
(* The folder scan on its own: the directories of two enabled sources and  *)
(* of the overlay are visited in any order, one os.walk iteration at a     *)
(* time, and the folder name map is then built with any iteration order of *)
(* the variant sets.                                                       *)

VariantTrees ==
    { NoDir,
      Dir({F(<<skse, <<"r">>>>, 1)}, {}),
      Dir({F(<<SKSE, <<"r">>>>, 1)}, {}),
      Dir({F(<<Skse, <<"x">>, <<"r">>>>, 1)}, {}),
      Dir({F(<<sKse, <<"r">>>>, 1)}, {<<<<"X">>>>}) }

TwoEnabled == File(<<"+","A","\n","+","B","\n">>)

\* the os.walk iterations of a source: its top and each directory below it
RootsOf(src, tree) ==
    IF tree.exists THEN {[src |-> src, root |-> r] : r \in {<<>>} \cup tree.dirs} ELSE {}

\* the tree of a source: a source name, or the overwrite folder
TreeOf(src) == IF src = OVERWRITE THEN overlay ELSE ModTree(mods, src)

InitVariants ==
    /\ pc = "scan"
    /\ listText = TwoEnabled
    /\ mods \in [{ModA, ModB} -> VariantTrees]
    /\ overlay \in VariantTrees
    /\ ovw_arg = TRUE
    /\ pending = RootsOf(ModA, mods[ModA]) \cup RootsOf(ModB, mods[ModB])
                    \cup RootsOf(OVERWRITE, overlay)
    /\ out = NoDir
    /\ original_path = <<>> /\ normalized_path = <<>> /\ links = NoLinks
    /\ NoFold /\ NoLink /\ NoMain

\* one iteration of the os.walk loop of scan_folder_for_variants
VisitDir ==
    /\ pc = "scan"
    /\ \E it \in pending :
          /\ folder_variants' = VisitRoot(folder_variants, TreeOf(it.src), it.root)
          /\ pending' = pending \ {it}
    /\ UNCHANGED <<pc, envVars, out, enabled_mods, folder_map, filemap, warned,
                   acct, idx, linkVars, vanished, original_path, normalized_path,
                   links, mainVars>>

\* build_folder_name_map, once every source is scanned
BuildFolderMap ==
    /\ pc = "scan"
    /\ pending = {}
    /\ \E iter \in Perms(AllVariants(folder_variants)) :
          folder_map' = build_folder_name_map(folder_variants, iter)
    /\ pc' = "mapped"
    /\ UNCHANGED <<envVars, out, enabled_mods, folder_variants, filemap, warned,
                   acct, idx, linkVars, vanished, auxVars, mainVars>>

NextVariants == VisitDir \/ BuildFolderMap

SpecVariants == InitVariants /\ [][NextVariants]_vars

\* the names of the directories of the sources on disk
ObservedNames ==
    {Last(q) : q \in mods[ModA].dirs \cup mods[ModB].dirs \cup overlay.dirs}

\* u comes before v in code point order
LexLess(u, v) ==
    \E k \in 1..(Len(v)) :
        /\ \A j \in 1..(k - 1) : j <= Len(u) /\ u[j] = v[j]
        /\ k - 1 <= Len(u)
        /\ (k > Len(u) \/ Ord(u[k]) < Ord(v[k]))

\* C6: the folder name map has exactly one entry per lowercased directory
\* name observed in the sources and the overlay; the entry is a variant of
\* that name that has more uppercase letters than every other variant, or
\* as many and comes after it in code point order; this holds whatever the
\* order of the scan and of the iteration of the variant sets.
C6_CanonicalSpelling ==
    pc = "mapped" =>
        /\ DOMAIN folder_map = {Lower(n) : n \in ObservedNames}
        /\ \A l \in DOMAIN folder_map :
              LET V == {n \in ObservedNames : Lower(n) = l}
                  w == folder_map[l]
              IN /\ w \in V
                 /\ \A u \in V \ {w} :
                       \/ count_uppercase(u) < count_uppercase(w)
                       \/ count_uppercase(u) = count_uppercase(w) /\ LexLess(u, w)

\* the variants SKSE, skse and Skse were observed and resolved to SKSE
C6_Witness ==
    /\ pc = "mapped"
    /\ {n \in ObservedNames : Lower(n) = skse} = {SKSE, skse, Skse}
    /\ folder_map[skse] = SKSE

-----------------------------------------------------------------------------
(* The normaliser on its own: normalize_path_with_map applied to paths of  *)
(* up to two folders and a filename, under several folder name maps.       *)

NormFolders == {skse, Skse, SKSE, <<"x">>}
NormFilenames == {ReadMeTXT, readmetxt, skse, SKSE}
NormPaths ==
    {Append(ds, f) : ds \in SeqsUpTo(NormFolders, 2), f \in NormFilenames}
NormMaps ==
    { <<>>, (skse :> SKSE), (skse :> Skse), (skse :> SKSE) @@ (<<"x">> :> <<"X">>) }

InitNorm ==
    /\ pc = "normalize"
    /\ original_path \in NormPaths
    /\ folder_map \in NormMaps
    /\ normalized_path = <<>> /\ pending = {} /\ links = NoLinks
    /\ listText = NoFile /\ NoDisk /\ NoLink /\ NoMain
    /\ enabled_mods = <<>> /\ folder_variants = <<>> /\ filemap = <<>>
    /\ warned = {} /\ acct = NoAcct

\* a call of normalize_path_with_map
Normalize ==
    /\ pc = "normalize"
    /\ normalized_path' = normalize_path_with_map(original_path, folder_map)
    /\ pc' = "normalized"
    /\ UNCHANGED <<envVars, out, foldVars, idx, linkVars, vanished, pending,
                   original_path, links, mainVars>>

NextNorm == Normalize

SpecNorm == InitNorm /\ [][NextNorm]_vars

\* C7: the normalised path has the segments of the original one, every
\* folder segment replaced by the map's spelling of its lowercased name, or
\* kept when the map has none, and the filename segment kept as it is, also
\* when the filename is itself a name of the map.
C7_NormalizeKeepsFilename ==
    pc = "normalized" =>
        /\ Len(normalized_path) = Len(original_path)
        /\ Last(normalized_path) = Last(original_path)
        /\ \A i \in 1..(Len(original_path) - 1) :
              LET l == Lower(original_path[i]) IN
              /\ l \in DOMAIN folder_map => normalized_path[i] = folder_map[l]
              /\ l \notin DOMAIN folder_map => normalized_path[i] = original_path[i]

\* skse/ReadMe.TXT under the map skse -> SKSE became SKSE/ReadMe.TXT
C7_Witness ==
    /\ pc = "normalized"
    /\ original_path = <<skse, ReadMeTXT>>
    /\ folder_map = (skse :> SKSE)
    /\ normalized_path = <<SKSE, ReadMeTXT>>

-----------------------------------------------------------------------------
(* build_data_folder: the destination map fold *)

\* mod_path of a source name, and the overwrite folder, as roots of origins
ModRoot(name) == [kind |-> "mods", name |-> name]
OverwriteRoot == [kind |-> "overwrite", name |-> <<>>]

\* the tree at a root, on a disk with mods folder mds and overwrite folder ovl
AtRoot(mds, ovl, root) == IF root.kind = "overwrite" THEN ovl ELSE ModTree(mds, root.name)

\* os.path.exists(full_source)
SourceExists(mds, ovl, src) == src.path \in Paths(AtRoot(mds, ovl, src.root))

\* os.path.getsize(full_source) if os.path.exists(full_source) else 0
SourceSize(mds, ovl, src) ==
    IF SourceExists(mds, ovl, src)
    THEN FileAt(AtRoot(mds, ovl, src.root), src.path).size ELSE 0

\* match_key in filemap, filemap[match_key], filemap[match_key] = rec; the
\* dict is the sequence of its records in insertion order
HasKey(fm, k) == \E i \in DOMAIN fm : fm[i].match_key = k
Get(fm, k) == fm[CHOOSE i \in DOMAIN fm : fm[i].match_key = k]
Put(fm, rec) ==
    IF HasKey(fm, rec.match_key)
    THEN [i \in DOMAIN fm |-> IF fm[i].match_key = rec.match_key THEN rec ELSE fm[i]]
    ELSE Append(fm, rec)

Keys(fm) == {fm[i].match_key : i \in DOMAIN fm}

\* the record the fold stores for a scanned file of the source at root
Record(name, root, f, fmap) ==
    [match_key       |-> f.match_key,
     mod_name        |-> name,
     original_path   |-> f.original_path,
     normalized_path |-> normalize_path_with_map(f.original_path, fmap),
     full_source     |-> [root |-> root, path |-> f.original_path]]

\* the body of the loop over the files of an enabled mod; st holds filemap
\* and the counters
FoldFile(st, name, f, fmap, mds, ovl) ==
    LET hit == HasKey(st.filemap, f.match_key)
        old_size == IF hit
                    THEN SourceSize(mds, ovl, Get(st.filemap, f.match_key).full_source)
                    ELSE 0
    IN [filemap |-> Put(st.filemap, Record(name, ModRoot(name), f, fmap)),
        acct    |-> IF hit
                    THEN [st.acct EXCEPT !.overrides = @ + 1,
                                         !.size_overridden = @ + old_size]
                    ELSE st.acct]

RECURSIVE FoldFiles(_, _, _, _, _, _)
FoldFiles(st, name, files, fmap, mds, ovl) ==
    IF files = <<>> THEN st
    ELSE FoldFiles(FoldFile(st, name, Head(files), fmap, mds, ovl),
                   name, Tail(files), fmap, mds, ovl)

\* a slip: a file of the overwrite folder does not replace a record of a mod
FoldOverwriteFileKeepMods(st, f, fmap, mds, ovl) ==
    IF Lower(f.original_path[1]) = shadercache \/ HasKey(st.filemap, f.match_key)
    THEN st
    ELSE [filemap |-> Put(st.filemap, Record(OVERWRITE, OverwriteRoot, f, fmap)),
          acct    |-> [st.acct EXCEPT !.overwrite_count = @ + 1]]

\* a slip: the files under ShaderCache are folded like the others
FoldOverwriteFileNoSkip(st, f, fmap, mds, ovl) ==
    [filemap |-> Put(st.filemap, Record(OVERWRITE, OverwriteRoot, f, fmap)),
     acct    |-> [st.acct EXCEPT !.overwrite_count = @ + 1]]

\* the body of the loop over the files of the overwrite folder
FoldOverwriteFile(st, f, fmap, mds, ovl) ==
    IF Lower(f.original_path[1]) = shadercache
    THEN [st EXCEPT !.acct.shadercache_skipped = @ + 1]
    ELSE LET hit == HasKey(st.filemap, f.match_key)
             old_size == IF hit
                         THEN SourceSize(mds, ovl, Get(st.filemap, f.match_key).full_source)
                         ELSE 0
             a == IF hit
                  THEN [st.acct EXCEPT !.size_overridden_by_overwrite = @ + old_size,
                                       !.size_overridden = @ + old_size,
                                       !.overwrite_overrides = @ + 1]
                  ELSE st.acct
         IN [filemap |-> Put(st.filemap, Record(OVERWRITE, OverwriteRoot, f, fmap)),
             acct    |-> [a EXCEPT !.overwrite_count = @ + 1]]

RECURSIVE FoldOverwriteFiles(_, _, _, _, _)
FoldOverwriteFiles(st, files, fmap, mds, ovl) ==
    IF files = <<>> THEN st
    ELSE FoldOverwriteFiles(FoldOverwriteFile(st, Head(files), fmap, mds, ovl),
                            Tail(files), fmap, mds, ovl)

\* Step 2: collect_all_folders and build_folder_name_map
AnalyzeFolders ==
    /\ pc = "parsed"
    /\ folder_variants' = collect_all_folders(listText.text, mods, ovw_arg, overlay)
    /\ folder_map' = build_folder_name_map(folder_variants',
                                           SetToSeq(AllVariants(folder_variants')))
    /\ filemap' = <<>>
    /\ acct' = NoAcct
    /\ idx' = 1
    /\ pc' = "fold"
    /\ UNCHANGED <<envVars, out, enabled_mods, warned, linkVars, vanished, auxVars,
                   mainVars>>

\* Step 3: one iteration of the loop over enabled_mods
FoldMod ==
    /\ pc = "fold"
    /\ idx <= Len(enabled_mods)
    /\ LET name == enabled_mods[idx]
           tree == ModTree(mods, name)
       IN IF ~tree.exists
          THEN /\ warned' = warned \cup {name}
               /\ UNCHANGED <<filemap, acct>>
          ELSE /\ \E files \in scan_mod_files(tree) :
                     LET st == FoldFiles([filemap |-> filemap, acct |-> acct],
                                         name, files, folder_map, mods, overlay)
                     IN filemap' = st.filemap /\ acct' = st.acct
               /\ UNCHANGED warned
    /\ idx' = idx + 1
    /\ UNCHANGED <<pc, envVars, out, enabled_mods, folder_variants, folder_map,
                   linkVars, vanished, auxVars, mainVars>>

\* a slip: the output directory is created while the overwrite folder is
\* still to be folded
FoldOverwriteCreatingOutput ==
    /\ pc = "fold"
    /\ idx > Len(enabled_mods)
    /\ IF out.exists
       THEN /\ pc' = "prepare"
            /\ IF ovw_arg /\ overlay.exists
               THEN \E files \in scan_mod_files(overlay) :
                       LET st == FoldOverwriteFiles([filemap |-> filemap, acct |-> acct],
                                                    files, folder_map, mods, overlay)
                       IN filemap' = st.filemap /\ acct' = st.acct
               ELSE UNCHANGED <<filemap, acct>>
            /\ UNCHANGED out
       ELSE /\ out' = [exists |-> TRUE, files |-> {}, dirs |-> {}, dev |-> "disk"]
            /\ UNCHANGED <<pc, filemap, acct>>
    /\ UNCHANGED <<envVars, enabled_mods, folder_variants, folder_map, warned,
                   idx, linkVars, vanished, auxVars, mainVars>>

\* Step 4: the overwrite folder, after the last enabled mod
FoldOverwrite ==
    /\ pc = "fold"
    /\ idx > Len(enabled_mods)
    /\ IF ovw_arg /\ overlay.exists
       THEN \E files \in scan_mod_files(overlay) :
               LET st == FoldOverwriteFiles([filemap |-> filemap, acct |-> acct],
                                            files, folder_map, mods, overlay)
               IN filemap' = st.filemap /\ acct' = st.acct
       ELSE UNCHANGED <<filemap, acct>>
    /\ pc' = "prepare"
    /\ UNCHANGED <<envVars, out, enabled_mods, folder_variants, folder_map, warned,
                   idx, linkVars, vanished, auxVars, mainVars>>

-----------------------------------------------------------------------------
(* build_data_folder: the output directory and the hardlinks *)

\* an output root just created
EmptyDir == [exists |-> TRUE, files |-> {}, dirs |-> {}, dev |-> "disk"]

Prefixes(d) == {SubSeq(d, 1, k) : k \in 1..Len(d)}
Parent(p) == SubSeq(p, 1, Len(p) - 1)

\* os.path.exists of a path below the output root
OutExists(o, p) == o.exists /\ (p = <<>> \/ p \in o.dirs \/ p \in Paths(o))

\* os.makedirs raises when a component of the path is a file
MakedirsRaises(o, d) == \E q \in Prefixes(d) : q \in Paths(o)
Makedirs(o, d) == [o EXCEPT !.dirs = @ \cup Prefixes(d)]

\* os.remove raises on a directory
RemoveRaises(o, p) == p \in o.dirs
Remove(o, p) == [o EXCEPT !.files = {f \in @ : f.path # p}]

\* os.link raises across devices, when the parent is not a directory, and
\* when the destination exists
LinkRaises(o, p, xd) ==
    \/ xd
    \/ Parent(p) # <<>> /\ Parent(p) \notin o.dirs
    \/ OutExists(o, p)
Link(o, p, size, src) ==
    [o EXCEPT !.files = @ \cup {[path |-> p, size |-> size, ino |-> src]}]

\* the try block of Step 7 for one entry: the output root it leaves and the
\* text of the exception it caught, "" when the link was made
TryLink(o, e, mds, ovl) ==
    LET dest == e.normalized_path
        xd == AtRoot(mds, ovl, e.full_source.root).dev # o.dev
    IN
    IF OutExists(o, dest) /\ RemoveRaises(o, dest)
    THEN [out |-> o, error |-> "Is a directory"]
    ELSE LET o2 == IF OutExists(o, dest) THEN Remove(o, dest) ELSE o IN
         IF ~SourceExists(mds, ovl, e.full_source)
         THEN [out |-> o2, error |-> "Source file not found"]
         ELSE IF LinkRaises(o2, dest, xd)
              THEN [out |-> o2,
                    error |-> IF xd THEN "Invalid cross-device link" ELSE "Not a directory"]
              ELSE [out |-> Link(o2, dest, SourceSize(mds, ovl, e.full_source),
                                 e.full_source),
                    error |-> ""]

\* Step 6: create the output directory when it does not exist
PrepareOutput ==
    /\ pc = "prepare"
    /\ out' = IF out.exists THEN out ELSE EmptyDir
    /\ created' = 0 /\ failed' = 0 /\ failed_files' = <<>>
    /\ idx' = 1
    /\ pc' = "link"
    /\ UNCHANGED <<envVars, foldVars, vanished, auxVars, mainVars>>

\* failed after an entry whose try block ended with the error text
CountFailed(n, error) == IF error = "" THEN n ELSE n + 1

\* Step 7: one iteration of the loop over filemap.items(); os.makedirs is
\* called before the try block, so what it raises leaves build_data_folder
LinkEntry ==
    /\ pc = "link"
    /\ idx <= Len(filemap)
    /\ LET e == filemap[idx]
           dest_dir == Parent(e.normalized_path)
           need == ~OutExists(out, dest_dir)
       IN IF need /\ MakedirsRaises(out, dest_dir)
          THEN /\ pc' = "abort_link"
               /\ UNCHANGED <<out, idx, linkVars>>
          ELSE LET o1 == IF need THEN Makedirs(out, dest_dir) ELSE out
                   file_size == SourceSize(mods, overlay, e.full_source)
                   r == TryLink(o1, e, mods, overlay)
               IN /\ out' = r.out
                  /\ created' = IF r.error = "" THEN created + 1 ELSE created
                  /\ failed' = CountFailed(failed, r.error)
                  /\ failed_files' =
                        IF r.error = "" THEN failed_files
                        ELSE Append(failed_files,
                                    [source |-> e.full_source,
                                     dest   |-> e.normalized_path,
                                     error  |-> r.error,
                                     size   |-> file_size])
                  /\ idx' = idx + 1
                  /\ pc' = pc
    /\ UNCHANGED <<envVars, foldVars, vanished, auxVars, mainVars>>

\* the summary and the build log, after the last entry
Summary ==
    /\ pc = "link"
    /\ idx > Len(filemap)
    /\ steps' = steps \cup {"summary"}
    /\ pc' = "built"
    /\ UNCHANGED <<envVars, out, foldVars, idx, linkVars, vanished, auxVars, args,
                   exit_code, snapshot, finished>>

\* another process removes the origin of the entry that is linked next
Vanish ==
    /\ pc = "link"
    /\ vanished < MaxVanish
    /\ idx <= Len(filemap)
    /\ \E i \in {idx} :
          LET src == filemap[i].full_source
              tree == AtRoot(mods, overlay, src.root)
              less == [tree EXCEPT !.files = {f \in @ : f.path # src.path}]
          IN /\ SourceExists(mods, overlay, src)
             /\ IF src.root.kind = "overwrite"
                THEN overlay' = less /\ UNCHANGED mods
                ELSE mods' = [mods EXCEPT ![src.root.name] = less] /\ UNCHANGED overlay
    /\ vanished' = vanished + 1
    /\ UNCHANGED <<pc, listText, ovw_arg, out, foldVars, idx, linkVars,
                   auxVars, mainVars>>

-----------------------------------------------------------------------------
(* A build on its own: build_data_folder called with an output root that   *)
(* does not exist, on the lists of at most MaxEntries lines of BuildLines, *)
(* each source named in the list absent or holding one of ModTrees, the    *)
(* overwrite folder not given, absent or holding one of OverlayTrees, one  *)
(* of which lies on another device than the output root.                  *)

BuildLines == { <<"+","A">>, <<"+","B">>, <<"+","C">>, <<"-","B">> }

ModTrees ==
    { Dir({F(<<skse, <<"r">>>>, 1), F(<<skse, <<"x">>, <<"r">>>>, 4)}, {}),
      Dir({F(<<SKSE, <<"R">>>>, 2), F(<<<<"w">>>>, 1)}, {}),
      Dir({F(<<skse>>, 3), F(<<ShaderCache, <<"c">>>>, 1)}, {}) }

OverlayTrees ==
    { DirOn("usb", {F(<<Skse, <<"r">>>>, 5)}, {}),
      Dir({F(<<ShaderCache, <<"c">>>>, 6), F(<<<<"w">>>>, 7)}, {}),
      Dir({F(<<shadercache, <<"c">>>>, 1), F(<<skse, <<"x">>, <<"r">>>>, 2)}, {}) }

BuildTexts == {TextOf(ls, TRUE) : ls \in SeqsUpTo(BuildLines, MaxEntries)}

InitBuild ==
    /\ pc = "parse"
    /\ listText \in {File(t) : t \in BuildTexts} \cup {NoFile}
    /\ mods \in [{ModA, ModB, ModC} -> ModTrees \cup {NoDir}]
    /\ \A m \in DOMAIN mods :
          mods[m].exists => listText.exists /\ m \in Range(parse_modlist(listText.text))
    /\ ovw_arg \in BOOLEAN
    /\ overlay \in OverlayTrees \cup {NoDir}
    /\ overlay.exists => ovw_arg /\ listText.exists
    /\ out = NoDir
    /\ NoFold /\ NoLink /\ NoAux
    /\ args = <<>> /\ exit_code = NoExit
    /\ finished = <<>> /\ steps = {}
    /\ snapshot = [mods |-> mods, overlay |-> overlay, out |-> out]

NextBuild ==
    \/ ParseMissing \/ ParseFile \/ AnalyzeFolders \/ FoldMod \/ FoldOverwrite
    \/ PrepareOutput \/ LinkEntry \/ Summary \/ Vanish

SpecBuild == InitBuild /\ [][NextBuild]_vars

\* Steps 1 to 4 of the same build on their own: the map is complete when the
\* overwrite folder is folded, and no later step writes to it
NextFold == ParseMissing \/ ParseFile \/ AnalyzeFolders \/ FoldMod \/ FoldOverwrite

SpecFold == InitBuild /\ [][NextFold]_vars

-----------------------------------------------------------------------------
(* Claims about the fold.  They are stated over the disk as it was when    *)
(* the build started (snapshot) and over the lines of the list file.       *)

\* the fold over the enabled mods and the overwrite folder has finished
FoldDone == pc \in {"prepare", "link", "built", "abort_link"}

\* the start positions of the enabled lines whose source directory exists,
\* and the source a line names
EnabledStarts == PlusStarts(listText.text)
SrcName(a) == NameAt(listText.text, a)
SrcTree(a) == ModTree(snapshot.mods, SrcName(a))
EnabledOnDisk == {a \in EnabledStarts : SrcTree(a).exists}

\* the match keys a tree provides
ProvidedKeys(tree) == {get_match_key(p) : p \in Paths(tree)}

\* the lines among E whose source provides key k
ProvidersIn(E, k) == {a \in E : k \in ProvidedKeys(SrcTree(a))}

\* the enabled lines whose source is on disk and provides key k
Providers(k) == ProvidersIn(EnabledOnDisk, k)

\* the overwrite folder was given and exists
OverlayFolded == ovw_arg /\ snapshot.overlay.exists

\* the files of the overwrite folder outside its cache subtree
OverlayOutsideCache ==
    IF OverlayFolded
    THEN {p \in Paths(snapshot.overlay) : Lower(p[1]) # shadercache}
    ELSE {}

\* the overwrite folder provides key k, inside or outside its cache subtree
OverlayProvides(k) == OverlayFolded /\ k \in ProvidedKeys(snapshot.overlay)

\* C1: once the fold is done, every match key provided by an enabled
\* source on disk and by a file of the overwrite folder outside ShaderCache
\* is recorded with the sentinel [OVERWRITE] and an origin in the overwrite
\* folder, wherever the ordinary sources stand in the list.
C1_OverlaySupremacy ==
    FoldDone =>
        LET E == EnabledOnDisk
            O == OverlayOutsideCache
        IN \A p \in O :
            ProvidersIn(E, get_match_key(p)) # {} =>
                /\ HasKey(filemap, get_match_key(p))
                /\ LET e == Get(filemap, get_match_key(p)) IN
                   /\ e.mod_name = OVERWRITE
                   /\ e.full_source.root = OverwriteRoot
                   /\ e.full_source.path \in O
                   /\ get_match_key(e.full_source.path) = get_match_key(p)

\* two enabled sources and the overwrite folder provide skse/r, and the
\* record names the overwrite folder
C1_Witness ==
    /\ pc = "prepare"
    /\ Cardinality({SrcName(a) : a \in Providers(<<skse, <<"r">>>>)}) >= 2
    /\ <<Skse, <<"r">>>> \in OverlayOutsideCache
    /\ Get(filemap, <<skse, <<"r">>>>).mod_name = OVERWRITE
    /\ Get(filemap, <<skse, <<"r">>>>).full_source.path = <<Skse, <<"r">>>>

\* the topmost of a set of line positions
Topmost(P) == CHOOSE a \in P : \A b \in P : a <= b

ListIsABC ==
    /\ listText.exists
    /\ Cardinality(EnabledStarts) = 3
    /\ \A a \in EnabledStarts :
          SrcName(a) = <<ModA, ModB, ModC>>[Cardinality({b \in EnabledStarts : b <= a})]

\* the match keys that A, B and C all provide and the overwrite folder does not
SharedByABC ==
    {k \in ProvidedKeys(ModTree(snapshot.mods, ModA)) :
        /\ k \in ProvidedKeys(ModTree(snapshot.mods, ModB))
        /\ k \in ProvidedKeys(ModTree(snapshot.mods, ModC))
        /\ ~OverlayProvides(k)}

OneRecordPerKey ==
    /\ \A i, j \in DOMAIN filemap :
          filemap[i].match_key = filemap[j].match_key => i = j
    /\ Cardinality({filemap[i].normalized_path : i \in DOMAIN filemap}) = Len(filemap)

\* the match keys of all files of the enabled sources on disk
OrdinaryKeys ==
    UNION {ProvidedKeys(ModTree(snapshot.mods, n)) :
             n \in {SrcName(a) : a \in EnabledStarts}}

\* C5 as stated: the keys of the map are the match keys of all files of
\* the enabled sources on disk and of the overwrite folder, minus the keys
\* under the cache subtree; each key has one record and the map has as many
\* destination paths as keys.
C5_KeysMinusCachePaths ==
    FoldDone =>
        /\ Keys(filemap) =
              {k \in OrdinaryKeys \cup
                     (IF OverlayFolded THEN ProvidedKeys(snapshot.overlay) ELSE {}) :
                  k[1] # shadercache}
        /\ OneRecordPerKey

\* C5 amended: the keys of the map are the match keys of all files of the
\* enabled sources on disk, those under a cache subtree included, and of
\* the files of the overwrite folder outside its cache subtree; each key
\* has one record and the map has as many destination paths as keys.
C5_KeysMinusOverlayCache ==
    FoldDone =>
        /\ Keys(filemap) =
              OrdinaryKeys \cup {get_match_key(p) : p \in OverlayOutsideCache}
        /\ OneRecordPerKey

\* a mod and the overwrite folder both hold ShaderCache/c: the key is in the
\* map, recorded for the mod
C5_Witness ==
    /\ pc = "prepare"
    /\ OverlayFolded
    /\ <<ShaderCache, <<"c">>>> \in Paths(snapshot.overlay)
    /\ <<shadercache, <<"c">>>> \in OrdinaryKeys
    /\ HasKey(filemap, <<shadercache, <<"c">>>>)
    /\ Get(filemap, <<shadercache, <<"c">>>>).mod_name # OVERWRITE
    /\ Len(filemap) >= 3

-----------------------------------------------------------------------------
(* Claims about the materialisation *)

\* the loop over the map has started
LinkStarted == pc \in {"link", "built", "abort_link"}

\* the loop over the map has been left, by its end or by an exception
LoopLeft == pc \in {"built", "abort_link"}

\* the counts while the loop runs: created + failed is the number of entries
\* processed, failed_files has one record per failure, and an entry whose
\* origin is gone when it is processed is among the failures
CountsMatchProcessed ==
    LinkStarted =>
        /\ created + failed = idx - 1
        /\ Len(failed_files) = failed
        /\ \A i \in 1..(idx - 1) :
              ~SourceExists(mods, overlay, filemap[i].full_source) =>
                  \E j \in DOMAIN failed_files :
                      failed_files[j].source = filemap[i].full_source

\* every source on disk is folded and every absent one is warned about
OtherSourcesFolded ==
    FoldDone =>
        LET names == {SrcName(a) : a \in EnabledStarts} IN
        /\ warned = {n \in names : ~ModTree(snapshot.mods, n).exists}
        /\ UNION {ProvidedKeys(ModTree(snapshot.mods, n)) : n \in names}
              \subseteq Keys(filemap)

\* C8: when a listed source's directory is absent and the origin of a mapped
\* file has vanished between scan and link, every other source is folded,
\* created + failed is at every step the number of entries processed, and
\* the loop is left only after every entry of the map was attempted, with
\* created + failed equal to the size of the map.
C8_ContinueOnErrorAccounting ==
    (warned # {} /\ vanished >= 1) =>
        /\ OtherSourcesFolded
        /\ CountsMatchProcessed
        /\ LoopLeft => /\ idx = Len(filemap) + 1
                       /\ created + failed = Len(filemap)

\* a listed source was missing, an origin vanished before its link, and the
\* build ended with that entry failed and others linked
C8_Witness ==
    /\ pc = "built"
    /\ warned # {}
    /\ vanished >= 1
    /\ created >= 1
    /\ \E j \in DOMAIN failed_files : failed_files[j].error = "Source file not found"
    /\ created + failed = Len(filemap)

\* C9: no failure of a filesystem operation on one entry ends the loop over
\* the map: the loop is left only by the summary, after every entry was
\* attempted and counted as created or failed.
C9_EntryFailureNeverAborts ==
    LoopLeft => /\ pc = "built"
                /\ idx = Len(filemap) + 1
                /\ Len(failed_files) = failed

\* the counts are exact in every state, up to the entry on which the loop
\* is left: what C8 and C9 state short of the loop reaching its end
CountsExactUntilLoopLeft == OtherSourcesFolded /\ CountsMatchProcessed

-----------------------------------------------------------------------------
(* main: the command line run.  out is the directory at args.output once   *)
(* the path is adjusted; the plugins.txt symlink made at the end lies in    *)
(* another directory and changes none of the trees modelled here.          *)

Data == <<"D","a","t","a">>
data == <<"d","a","t","a">>
Game == <<"G","a","m","e">>
ScriptDir == <<"s","r","c">>

\* --output not given, and given as a path
NoOutput == [given |-> FALSE, path |-> <<>>]
Output(path) == [given |-> TRUE, path |-> path]

\* path.rstrip(os.sep) and os.path.basename of it; a path is the sequence of
\* its segments, a separator at its end leaves an empty last segment
RECURSIVE RStripSep(_)
RStripSep(path) ==
    IF path # <<>> /\ Last(path) = <<>> THEN RStripSep(Parent(path)) ELSE path
BaseName(path) == IF RStripSep(path) = <<>> THEN <<>> ELSE Last(RStripSep(path))

\* os.path.join(path, name)
Join(path, name) ==
    IF path # <<>> /\ Last(path) = <<>> THEN Append(Parent(path), name)
    ELSE Append(path, name)

\* the output path after the adjustment at the head of main
AdjustOutput(output) ==
    IF ~output.given THEN Output(<<ScriptDir, Data>>)
    ELSE IF Lower(BaseName(output.path)) # data
         THEN Output(Join(output.path, Data))
         ELSE output

\* os.path.isdir of a path below a tree, and what lies below a directory
IsDir(tree, d) == tree.exists /\ d \in tree.dirs
Below(d, p) == Len(p) > Len(d) /\ SubSeq(p, 1, Len(d)) = d

\* shutil.rmtree of directory d of a tree; it raises on a regular file
RmtreeRaises(tree, d) == d \in Paths(tree)
Rmtree(tree, d) ==
    [tree EXCEPT !.files = {f \in @ : ~Below(d, f.path)},
                 !.dirs  = {q \in @ : q # d /\ ~Below(d, q)}]

\* the inode of a file made by shutil.copytree, and of a file found in the
\* output root when the program starts
CopyOf(p) == [root |-> [kind |-> "copy", name |-> <<>>], path |-> p]
OldFile(p) == [root |-> [kind |-> "old", name |-> <<>>], path |-> p]

\* shutil.copytree of directory d of src to the same place in the overwrite
\* folder and in the output root; the destination and its parents are made
CopyToOverwrite(src, dst, d) ==
    LET base == IF dst.exists THEN dst ELSE EmptyDir IN
    [base EXCEPT
       !.files = @ \cup {[path |-> f.path, size |-> f.size] :
                           f \in {g \in src.files : Below(d, g.path)}},
       !.dirs  = @ \cup {d} \cup {q \in src.dirs : Below(d, q)}]
CopyToOutput(src, dst, d) ==
    LET base == IF dst.exists THEN dst ELSE EmptyDir IN
    [base EXCEPT
       !.files = @ \cup {[path |-> f.path, size |-> f.size, ino |-> CopyOf(f.path)] :
                           f \in {g \in src.files : Below(d, g.path)}},
       !.dirs  = @ \cup {d} \cup {q \in src.dirs : Below(d, q)}]

\* a slip: the copy is made over the ShaderCache the overwrite folder holds
sync_shadercache_merging(o, ovl, given) ==
    IF ~given \/ ~IsDir(o, <<ShaderCache>>)
    THEN [overlay |-> ovl, raised |-> FALSE, result |-> FALSE]
    ELSE [overlay |-> CopyToOverwrite(o, ovl, <<ShaderCache>>),
          raised |-> FALSE, result |-> TRUE]

\* sync_shadercache: the overwrite folder it leaves, raised when it ends in
\* an exception, and the value it returns
sync_shadercache(o, ovl, given) ==
    IF ~given \/ ~IsDir(o, <<ShaderCache>>)
    THEN [overlay |-> ovl, raised |-> FALSE, result |-> FALSE]
    ELSE IF ovl.exists /\ RmtreeRaises(ovl, <<ShaderCache>>)
         THEN [overlay |-> ovl, raised |-> TRUE, result |-> FALSE]
         ELSE [overlay |-> CopyToOverwrite(o,
                              IF ovl.exists THEN Rmtree(ovl, <<ShaderCache>>) ELSE ovl,
                              <<ShaderCache>>),
               raised |-> FALSE, result |-> TRUE]

\* a slip: the copy is made over the ShaderCache the output root holds
copy_shadercache_to_data_merging(ovl, o, given) ==
    IF ~given \/ ~IsDir(ovl, <<ShaderCache>>)
    THEN [out |-> o, raised |-> FALSE, result |-> FALSE]
    ELSE [out |-> CopyToOutput(ovl, o, <<ShaderCache>>),
          raised |-> FALSE, result |-> TRUE]

\* copy_shadercache_to_data: the output root it leaves
copy_shadercache_to_data(ovl, o, given) ==
    IF ~given \/ ~IsDir(ovl, <<ShaderCache>>)
    THEN [out |-> o, raised |-> FALSE, result |-> FALSE]
    ELSE IF OutExists(o, <<ShaderCache>>) /\ RmtreeRaises(o, <<ShaderCache>>)
         THEN [out |-> o, raised |-> TRUE, result |-> FALSE]
         ELSE [out |-> CopyToOutput(ovl,
                          IF o.exists THEN Rmtree(o, <<ShaderCache>>) ELSE o,
                          <<ShaderCache>>),
               raised |-> FALSE, result |-> TRUE]

\* lines 710-721: the default and the adjustment of the output path
MainOutputPath ==
    /\ pc = "main"
    /\ args' = [args EXCEPT !.output = AdjustOutput(@)]
    /\ pc' = "main_args"
    /\ UNCHANGED <<envVars, out, foldVars, idx, linkVars, vanished, auxVars,
                   exit_code, snapshot, finished, steps>>

\* what check_file_source prints: no enabled mod has the file, or the
\* winner
NotFound == [found |-> FALSE, mod_name |-> <<>>]
Winner(name) == [found |-> TRUE, mod_name |-> name]

\* check_file_source: found_in holds the enabled mods, bottom to top, whose
\* directory exists and holds a file of the key; the last one is the winner
check_file_source(text, mds, file_to_check) ==
    LET enabled == parse_modlist(text)
        check_key == get_match_key(file_to_check)
        found_in == {i \in DOMAIN enabled :
                        /\ ModTree(mds, enabled[i]).exists
                        /\ check_key \in ProvidedKeys(ModTree(mds, enabled[i]))}
    IN IF found_in = {} THEN NotFound
       ELSE Winner(enabled[CHOOSE i \in found_in : \A j \in found_in : j <= i])

\* lines 723-726: check mode; check_file_source reads the list through
\* collect_all_folders and parse_modlist (sys.exit(1) on a missing list),
\* prints, and main returns
MainCheckMode ==
    /\ pc = "main_args"
    /\ args.check # <<>>
    /\ exit_code' = IF listText.exists THEN "0" ELSE "1"
    /\ snapshot' = IF listText.exists
                   THEN [snapshot EXCEPT
                            !.winner = check_file_source(listText.text, mods, args.check),
                            !.checked = args.check]
                   ELSE snapshot
    /\ pc' = "exit"
    /\ UNCHANGED <<envVars, out, foldVars, idx, linkVars, vanished, auxVars,
                   args, finished, steps>>

\* lines 728-746: the safety check on the base name, then Step 0, the sync
\* of ShaderCache from the existing output root to the overwrite folder
MainSync ==
    /\ pc = "main_args"
    /\ args.check = <<>>
    /\ IF Lower(BaseName(args.output.path)) # data
       THEN /\ exit_code' = "1" /\ pc' = "exit"
            /\ UNCHANGED <<overlay, steps>>
       ELSE LET r == sync_shadercache(out, overlay, ovw_arg /\ out.exists) IN
            /\ overlay' = r.overlay
            /\ steps' = steps \cup (IF r.raised THEN {"sync_raised"} ELSE {})
                               \cup (IF r.result THEN {"sync"} ELSE {})
            /\ IF r.raised
               THEN exit_code' = "1" /\ pc' = "exit"
               ELSE pc' = "main_delete" /\ UNCHANGED exit_code
    /\ UNCHANGED <<listText, mods, ovw_arg, out, foldVars, idx, linkVars, vanished,
                   auxVars, args, snapshot, finished>>

\* what input() can return at the prompt, stripped and lowercased
Responses == {"y", "yes", "n", ""}

\* lines 749-764: the output root exists and the answer to the prompt is
\* not y or yes
MainDeclined ==
    /\ pc = "main_delete"
    /\ out.exists
    /\ ~args.yes
    /\ \E response \in Responses : response \notin {"y", "yes"}
    /\ exit_code' = "0"
    /\ pc' = "exit"
    /\ UNCHANGED <<envVars, out, foldVars, idx, linkVars, vanished, auxVars,
                   args, snapshot, finished, steps>>

\* lines 749-768: the output root, when it exists, is deleted under --yes or
\* on the answer y or yes, and build_data_folder is called
MainDelete ==
    /\ pc = "main_delete"
    /\ out.exists =>
          args.yes \/ \E response \in Responses : response \in {"y", "yes"}
    /\ out' = NoDir
    /\ steps' = steps \cup (IF out.exists THEN {"rmtree"} ELSE {}) \cup {"build"}
    /\ pc' = "parse"
    /\ UNCHANGED <<envVars, foldVars, idx, linkVars, vanished, auxVars, args,
                   exit_code, snapshot, finished>>

\* lines 770-829: build_data_folder has returned; the ShaderCache of the
\* overwrite folder is copied to the new output root; then, unless
\* --no-plugins was given, the plugins.txt found beside the list file is
\* linked.  An exception of the copy ends the run with the traceback.
MainRestore ==
    /\ pc = "built"
    /\ LET r == copy_shadercache_to_data(overlay, out, ovw_arg) IN
       /\ out' = r.out
       /\ exit_code' = IF r.raised THEN "1" ELSE "0"
       /\ \E plugins_txt \in BOOLEAN :
             steps' = steps \cup
                 (IF r.raised THEN {"restore_raised"}
                  ELSE (IF r.result THEN {"restore"} ELSE {}) \cup
                       (IF ~args.no_plugins THEN {"plugins"} ELSE {}) \cup
                       (IF ~args.no_plugins /\ plugins_txt THEN {"symlink"} ELSE {}))
    /\ pc' = "exit"
    /\ UNCHANGED <<envVars, foldVars, idx, linkVars, vanished, auxVars, args,
                   snapshot, finished>>

\* an exception left build_data_folder: main does not catch it, the
\* interpreter prints the traceback and exits with status 1
MainUncaught ==
    /\ pc = "abort_link"
    /\ exit_code' = "1"
    /\ pc' = "exit"
    /\ UNCHANGED <<envVars, out, foldVars, idx, linkVars, vanished, auxVars,
                   args, snapshot, finished, steps>>

(* The command line runs on a list file that is missing or enables A, a    *)
(* mod A that is missing or holds one of MainModTrees, the overwrite       *)
(* folder not given, absent or one of MainOverlayTrees, and an output root *)
(* that is absent or left by an earlier build, with or without a           *)
(* ShaderCache written by the game.                                        *)

MainOutputs ==
    {NoOutput, Output(<<Game, Data>>), Output(<<Game, data>>), Output(<<Game>>),
     Output(<<Game, <<>>>>), Output(<<Game, Data, <<>>>>)}

MainModTrees ==
    { Dir({F(<<skse>>, 3), F(<<ShaderCache, <<"c">>>>, 1)}, {}),
      Dir({F(<<ShaderCache>>, 2), F(<<<<"w">>>>, 1)}, {}),
      Dir({F(<<SHADERCACHE, <<"c">>>>, 1)}, {}) }

MainOverlayTrees == OverlayTrees \cup {Dir({F(<<ShaderCache>>, 1)}, {})}

OldFiles(files) == {[path |-> f.path, size |-> f.size, ino |-> OldFile(f.path)] : f \in files}

MainOutTrees ==
    { [EmptyDir EXCEPT !.files = OldFiles({F(<<<<"w">>>>, 1)})],
      [Dir({}, {}) EXCEPT
         !.files = OldFiles({F(<<<<"w">>>>, 1), F(<<ShaderCache, <<"s">>>>, 9)}),
         !.dirs  = {<<ShaderCache>>}] }

InitMain ==
    /\ pc = "main"
    /\ listText \in {NoFile, File(TextOf(<< <<"+","A">> >>, TRUE))}
    /\ mods \in [{ModA, ModB, ModC} -> MainModTrees \cup {NoDir}]
    /\ mods[ModB] = NoDir /\ mods[ModC] = NoDir
    /\ ovw_arg \in BOOLEAN
    /\ overlay \in MainOverlayTrees \cup {NoDir}
    /\ overlay.exists => ovw_arg
    /\ out \in MainOutTrees \cup {NoDir}
    /\ NoFold /\ NoLink /\ NoAux
    /\ args \in [output : MainOutputs, check : {<<>>, <<SKSE>>, <<<<"w">>>>},
                  yes : BOOLEAN, no_plugins : BOOLEAN]
    /\ exit_code = NoExit
    /\ finished = <<>> /\ steps = {}
    /\ snapshot = [mods |-> mods, overlay |-> overlay, out |-> out,
                   winner |-> NotFound, checked |-> <<>>]

NextMain ==
    \/ MainOutputPath \/ MainCheckMode \/ MainSync \/ MainDeclined \/ MainDelete
    \/ ParseMissing \/ ParseFile \/ AnalyzeFolders \/ FoldMod \/ FoldOverwrite
    \/ PrepareOutput \/ LinkEntry \/ Summary
    \/ MainRestore \/ MainUncaught

SpecMain == InitMain /\ [][NextMain]_vars

(* A check followed by a build: the command line is run with --check and a *)
(* path, and then once more with the same arguments without --check.      *)

InitCheck == InitMain /\ args.check # <<>>

\* the program is started again, without --check
BuildAfterCheck ==
    /\ pc = "exit"
    /\ args.check # <<>>
    /\ args' = [args EXCEPT !.check = <<>>]
    /\ exit_code' = NoExit
    /\ pc' = "main_args"
    /\ UNCHANGED <<envVars, out, foldVars, idx, linkVars, vanished, auxVars,
                   snapshot, finished, steps>>

NextCheck == NextMain \/ BuildAfterCheck

SpecCheck == InitCheck /\ [][NextCheck]_vars

\* the run has ended with a status other than 0 on a missing list file
MissingListExit == pc = "exit" /\ exit_code = "1" /\ ~listText.exists

\* C10: when the list file does not exist, the command line run ends with a
\* status other than 0 and, when it has ended, the output root and the
\* overwrite folder are what they were when the run started.
C10_MissingListMutatesNothing ==
    MissingListExit => out = snapshot.out /\ overlay = snapshot.overlay

\* what holds of such a run: the mods folder is never touched
MissingListLeavesMods == MissingListExit => mods = snapshot.mods

-----------------------------------------------------------------------------
(* The graphical front end: start_build of the main window and the run     *)
(* method of BuildWorker.  out is the directory at the path of the Data    *)
(* folder field, which holds the data_path of the selected game.           *)

DataFolder == <<"D","a","t","a","F","o","l","d","e","r">>
DataFiles == <<"D","a","t","a"," ","F","i","l","e","s">>
Morrowind == <<"M","o","r","r","o","w","i","n","d">>

\* data_path of two of the games of get_default_game_paths
DefaultDataPaths == {<<Game, Data>>, <<Morrowind, DataFiles>>}

\* update_build_button: the Build button is enabled
can_build(list, mds, o) ==
    /\ list.exists
    /\ ModTree(mds, DataFolder).exists \/ (o.exists /\ o.files \cup o.dirs # {})

\* the lines _create_datafolder_mod_internal writes back to modlist.txt
IsSeparatorLine(line) == StartsWith(Strip(line), "*")
KeptLine(line) == ~IsSeparatorLine(line)
HasDataFolder(lines) ==
    \E i \in DOMAIN lines :
        Strip(lines[i]) \in {<<"+">> \o DataFolder, <<"-">> \o DataFolder}
InsertPos(lines) ==
    LET full == {i \in DOMAIN lines : Strip(lines[i]) # <<>>} IN
    IF full = {} THEN Len(lines) ELSE CHOOSE i \in full : \A j \in full : j <= i
UpdatedModlist(text) ==
    LET lines == SelectSeq(readlines(text), KeptLine)
        at == InsertPos(lines)
    IN Flatten(IF HasDataFolder(lines) THEN lines
               ELSE SubSeq(lines, 1, at)
                    \o << <<"+">> \o DataFolder \o <<"\n">> >>
                    \o SubSeq(lines, at + 1, Len(lines)))

\* what shutil.move of every entry of the output root leaves in DataFolder
MovedTree(o) ==
    [exists |-> TRUE, files |-> {F(f.path, f.size) : f \in o.files},
     dirs |-> o.dirs, dev |-> "disk"]

\* start_build answered with No: nothing is done
GuiDeclined ==
    /\ pc = "gui"
    /\ can_build(listText, mods, out)
    /\ \E reply \in {"Yes", "No"} : reply # "Yes"
    /\ pc' = "idle"
    /\ UNCHANGED <<envVars, out, foldVars, idx, linkVars, vanished, auxVars, mainVars>>

\* start_build answered with Yes: the DataFolder mod is made from the
\* contents of the output root when it does not exist, the output root is
\* deleted when it exists, and the worker is started.  os.listdir raises on
\* an output root that does not exist, and start_build returns.
GuiStartBuild ==
    /\ pc = "gui"
    /\ can_build(listText, mods, out)
    /\ \E reply \in {"Yes", "No"} : reply = "Yes"
    /\ LET needs_datafolder_creation == ~ModTree(mods, DataFolder).exists IN
       IF needs_datafolder_creation /\ ~out.exists
       THEN /\ mods' = [mods EXCEPT ![DataFolder] = EmptyDir]
            /\ pc' = "idle"
            /\ UNCHANGED <<listText, out, steps>>
       ELSE /\ mods' = IF needs_datafolder_creation
                       THEN [mods EXCEPT ![DataFolder] = MovedTree(out)]
                       ELSE mods
            /\ listText' = IF needs_datafolder_creation
                           THEN File(UpdatedModlist(listText.text))
                           ELSE listText
            /\ out' = NoDir
            /\ steps' = steps \cup (IF out.exists THEN {"rmtree"} ELSE {}) \cup {"build"}
            /\ pc' = "parse"
    /\ UNCHANGED <<overlay, ovw_arg, foldVars, idx, linkVars, vanished, auxVars,
                   args, exit_code, snapshot, finished>>

\* BuildWorker.run after build_data_folder has returned: the ShaderCache
\* copy, the plugins.txt symlink and the launcher swap, in one try block
\* with the build; finished_signal carries True at its end and False from
\* the except clause
WorkerPostBuild ==
    /\ pc = "built"
    /\ LET r == copy_shadercache_to_data(overlay, out, ovw_arg) IN
       /\ out' = r.out
       /\ finished' = Append(finished, ~r.raised)
       /\ \E plugins_txt \in BOOLEAN, script_extender \in BOOLEAN :
             steps' = steps \cup
                 (IF r.raised THEN {"restore_raised"}
                  ELSE (IF r.result THEN {"restore"} ELSE {}) \cup
                       (IF args.plugins_dest THEN {"plugins"} ELSE {}) \cup
                       (IF args.plugins_dest /\ plugins_txt THEN {"symlink"} ELSE {}) \cup
                       (IF script_extender THEN {"launcher"} ELSE {}))
    /\ pc' = "idle"
    /\ UNCHANGED <<envVars, foldVars, idx, linkVars, vanished, auxVars, args,
                   exit_code, snapshot>>

\* BuildWorker.run: an exception left build_data_folder and is caught
WorkerCaught ==
    /\ pc = "abort_link"
    /\ finished' = Append(finished, FALSE)
    /\ pc' = "idle"
    /\ UNCHANGED <<envVars, out, foldVars, idx, linkVars, vanished, auxVars, args,
                   exit_code, snapshot, steps>>

(* The window runs on a list of at most MaxGuiLines lines of GuiLines, a   *)
(* mod A holding one of GuiModTrees, a DataFolder mod that is absent or    *)
(* was made earlier, the overwrite folder not set or one of                *)
(* MainOverlayTrees, and the Data folder of the game, absent or holding    *)
(* one of GuiOutTrees.                                                     *)

MaxGuiLines == 2

GuiLines == { <<"+","A">>, <<"*","A">>, <<"+">> \o DataFolder }

GuiModTrees ==
    { Dir({F(<<ShaderCache>>, 2), F(<<<<"w">>>>, 1)}, {}),
      Dir({F(<<skse, <<"r">>>>, 1), F(<<skse, <<"x">>, <<"r">>>>, 4)}, {}) }

GuiOutTrees ==
    MainOutTrees \cup
    { [EmptyDir EXCEPT !.files = OldFiles({F(<<skse>>, 3), F(<<<<"w">>>>, 1)})] }

InitGui ==
    /\ pc = "gui"
    /\ listText \in {File(TextOf(ls, TRUE)) : ls \in SeqsUpTo(GuiLines, MaxGuiLines)}
    /\ mods \in [{ModA, DataFolder} -> GuiModTrees \cup {NoDir}]
    /\ mods[ModA].exists
    /\ mods[DataFolder] \in {NoDir, Dir({F(<<<<"w">>>>, 1)}, {})}
    /\ ovw_arg \in BOOLEAN
    /\ overlay \in MainOverlayTrees \cup {NoDir}
    /\ overlay.exists = ovw_arg
    /\ out \in GuiOutTrees \cup {NoDir}
    /\ NoFold /\ NoLink /\ NoAux
    /\ args \in [output : {Output(p) : p \in DefaultDataPaths}, plugins_dest : BOOLEAN]
    /\ exit_code = NoExit
    /\ finished = <<>> /\ steps = {}
    /\ snapshot = [mods |-> mods, overlay |-> overlay, out |-> out]

NextGui ==
    \/ GuiDeclined \/ GuiStartBuild
    \/ ParseFile \/ AnalyzeFolders \/ FoldMod \/ FoldOverwrite
    \/ PrepareOutput \/ LinkEntry \/ Summary
    \/ WorkerPostBuild \/ WorkerCaught

SpecGui == InitGui /\ [][NextGui]_vars

-----------------------------------------------------------------------------
(* Claims about the callers of build_data_folder *)

\* the loop over the map ran to its end and the summary was printed
PassCompleted == "summary" \in steps

\* C11: the flag of finished_signal is True whenever the materialization
\* pass ran to completion, whatever the number of failed entries; False is
\* signalled only when the pass did not complete.
C11_SuccessWheneverPassCompleted ==
    PassCompleted => \A i \in DOMAIN finished : finished[i]

\* a pass that completed with a failed entry and was signalled as a success
C11_Witness == PassCompleted /\ failed > 0 /\ finished = <<TRUE>>

\* what holds of the flag: False is never signalled for the failed count,
\* only for an exception, of the pass or of a step that follows it
FailureFlagOnlyOnException ==
    \A i \in DOMAIN finished :
        ~finished[i] => (~PassCompleted \/ "restore_raised" \in steps)

\* shutil.rmtree was applied to the output root, or build_data_folder was
\* called on it
OutputRootUsed == "rmtree" \in steps \/ "build" \in steps

\* C12: whenever a caller applies shutil.rmtree to the output root or calls
\* build_data_folder on it, the base name of the output path, lowercased,
\* is data.
C12_OutputRootNamedData ==
    OutputRootUsed => Lower(BaseName(args.output.path)) = data

\* the window has deleted the Data Files folder of Morrowind and builds
\* into it
C12_Witness ==
    /\ {"rmtree", "build"} \subseteq steps
    /\ BaseName(args.output.path) = DataFiles

\* entry i of the map is linked in the output root, and the failure records
\* of entry i
EntryLinked(i) ==
    \E f \in out.files : /\ f.path = filemap[i].normalized_path
                         /\ f.ino = filemap[i].full_source
RecordsOf(i) ==
    {j \in DOMAIN failed_files :
        /\ failed_files[j].source = filemap[i].full_source
        /\ failed_files[j].dest = filemap[i].normalized_path}

\* C13: no error is dropped: once the loop over the map is left, every
\* source whose directory is missing was warned about, and every entry that
\* is not linked has exactly one failure record, a linked entry none.
C13_NoErrorDropped ==
    LoopLeft =>
        /\ warned = {n \in Range(enabled_mods) : ~ModTree(snapshot.mods, n).exists}
        /\ \A i \in DOMAIN filemap :
              Cardinality(RecordsOf(i)) = IF EntryLinked(i) THEN 0 ELSE 1

\* a build that warned about a missing source and recorded a failed entry
C13_Witness ==
    /\ pc = "built"
    /\ warned # {}
    /\ \E i \in DOMAIN filemap : ~EntryLinked(i) /\ Cardinality(RecordsOf(i)) = 1

\* what holds: every entry the loop has processed is linked or has exactly
\* one record
ProcessedEntriesRecorded ==
    LinkStarted =>
        \A i \in 1..(idx - 1) :
            Cardinality(RecordsOf(i)) = IF EntryLinked(i) THEN 0 ELSE 1

-----------------------------------------------------------------------------
(* Two builds against the same sources: Steps 1 to 4 run, the map they     *)
(* leave is kept in snapshot, and they run once more on the unchanged      *)
(* disk.  On a file system that tells case apart a source can hold two     *)
(* files whose match keys are equal.                                       *)

TwiceLines == { <<"+","A">>, <<"+","B">> }

TwiceTrees ==
    { Dir({F(<<skse, <<"r">>>>, 1), F(<<SKSE, <<"r">>>>, 2)}, {}),
      Dir({F(<<ReadMeTXT>>, 1), F(<<readmetxt>>, 2)}, {}),
      Dir({F(<<skse, <<"r">>>>, 3), F(<<<<"w">>>>, 1)}, {}) }

InitTwice ==
    /\ pc = "parse"
    /\ listText \in {File(TextOf(ls, TRUE)) : ls \in SeqsUpTo(TwiceLines, MaxEntries)}
    /\ mods \in [{ModA, ModB} -> TwiceTrees \cup {NoDir}]
    /\ ovw_arg = FALSE /\ overlay = NoDir /\ out = NoDir
    /\ NoFold /\ NoLink /\ NoAux
    /\ args = <<>> /\ exit_code = NoExit
    /\ finished = <<>> /\ steps = {}
    /\ snapshot = [mods |-> mods, overlay |-> overlay, out |-> out,
                   filemap |-> <<>>, runs |-> 0]

\* the program is started a second time on the same arguments
BuildAgain ==
    /\ pc = "prepare"
    /\ snapshot.runs = 0
    /\ snapshot' = [snapshot EXCEPT !.filemap = filemap, !.runs = 1]
    /\ enabled_mods' = <<>> /\ folder_variants' = <<>> /\ folder_map' = <<>>
    /\ filemap' = <<>> /\ warned' = {} /\ acct' = NoAcct
    /\ idx' = 0
    /\ pc' = "parse"
    /\ UNCHANGED <<envVars, out, linkVars, vanished, auxVars, args, exit_code,
                   finished, steps>>

NextTwice == ParseFile \/ AnalyzeFolders \/ FoldMod \/ FoldOverwrite \/ BuildAgain

SpecTwice == InitTwice /\ [][NextTwice]_vars

\* the second fold is complete
SecondFoldDone == pc = "prepare" /\ snapshot.runs = 1

\* C14: two builds against the same sources leave the same map, whatever
\* the order in which the files of a source were enumerated: the same
\* winning source, origin path and destination path for every key.
C14_MapDeterministic ==
    SecondFoldDone => Range(filemap) = Range(snapshot.filemap)

\* two builds of a list of two sources, the upper replacing a record of the
\* lower, that left the same map
C14_Witness ==
    /\ SecondFoldDone
    /\ Len(enabled_mods) = 2
    /\ acct.overrides >= 1
    /\ Range(filemap) = Range(snapshot.filemap)

\* what holds: the keys of the map and, for each key, the winning source and
\* the destination path do not depend on the enumeration order within a
\* source that holds no two files of equal match key
HasKeyClash(tree) ==
    \E f, g \in tree.files : f.path # g.path /\ get_match_key(f.path) = get_match_key(g.path)
MapDeterministicWithoutClash ==
    (SecondFoldDone /\ \A n \in DOMAIN mods : ~HasKeyClash(mods[n]))
        => Range(filemap) = Range(snapshot.filemap)

-----------------------------------------------------------------------------
(* Claims about the ShaderCache steps around the build *)

\* the command line run has ended after the build and the restore
FullBuildDone == pc = "exit" /\ exit_code = "0" /\ PassCompleted

\* two directories of a tree lie in the same parent and differ only by case
CaseTwins(tree) ==
    {pq \in tree.dirs \X tree.dirs :
        /\ pq[1] # pq[2]
        /\ Parent(pq[1]) = Parent(pq[2])
        /\ Lower(Last(pq[1])) = Lower(Last(pq[2]))}

\* C15: after a full build started from a deleted output root, restore of
\* the cache subtree included, the output tree holds no two directories in
\* the same parent whose names differ only by letter case.
C15_NoCaseTwinDirs == FullBuildDone => CaseTwins(out) = {}

\* a full build that linked a file of a mod and restored the cache subtree
C15_Witness ==
    /\ FullBuildDone
    /\ "restore" \in steps
    /\ \E f \in out.files : f.ino.root.kind = "mods"
    /\ <<ShaderCache>> \in out.dirs
    /\ CaseTwins(out) = {}

\* what holds: the directories made by the materialization pass alone
\* never differ only by case
MaterializedDirsCanonical == pc \in {"link", "built"} => CaseTwins(out) = {}

\* C16: a failure of the cache copy does not block the build: when the
\* run has ended and the preserve copy raised, build_data_folder was still
\* called, and when the restore copy raised, the plugins.txt step that
\* follows it still ran.
C16_CopyFailureDoesNotBlock ==
    pc = "exit" =>
        /\ "sync_raised" \in steps => "build" \in steps
        /\ ("restore_raised" \in steps /\ ~args.no_plugins) => "plugins" \in steps

\* the restore copy raised after a pass that linked a file
C16_Witness ==
    /\ pc = "exit"
    /\ "restore_raised" \in steps
    /\ \E i \in DOMAIN filemap : EntryLinked(i)

\* what holds: a restore copy that raises leaves the materialized output
\* as the pass left it
RestoreFailureKeepsOutput ==
    (pc = "exit" /\ "restore_raised" \in steps) =>
        \A i \in DOMAIN filemap : EntryLinked(i) \/ RecordsOf(i) # {}

\* the ShaderCache directory of a tree, and the rest of the tree
IsCachePath(p) == p = <<ShaderCache>> \/ Below(<<ShaderCache>>, p)
CacheOf(tree) ==
    [files |-> {F(f.path, f.size) : f \in {g \in tree.files : IsCachePath(g.path)}},
     dirs  |-> {q \in tree.dirs : IsCachePath(q)}]
RestOf(tree) ==
    [files |-> {F(f.path, f.size) : f \in {g \in tree.files : ~IsCachePath(g.path)}},
     dirs  |-> {q \in tree.dirs : ~IsCachePath(q)}]

\* sync_shadercache has returned and the output root is not yet deleted
SyncReturned == pc = "main_delete" /\ out.exists

SkippedByFold == {f \in overlay.files : Lower(f.path[1]) = shadercache}

\* C18: after a full build with the restore, every file of the overwrite
\* folder that the fold skipped as ShaderCache content is present in the
\* output root.
C18_SkippedFilesRestored ==
    (FullBuildDone /\ ovw_arg) => \A f \in SkippedByFold : f.path \in Paths(out)

\* a skipped file of the overwrite folder that the restore copied to the
\* output root
C18_Witness ==
    /\ FullBuildDone
    /\ \E f \in SkippedByFold :
          \E g \in out.files : g.path = f.path /\ g.ino = CopyOf(f.path)

\* what holds: the skipped files below a directory named exactly
\* ShaderCache are in the output root after the restore
ExactCacheRestored ==
    (FullBuildDone /\ ovw_arg) =>
        \A f \in SkippedByFold : Below(<<ShaderCache>>, f.path) => f.path \in Paths(out)

-----------------------------------------------------------------------------
(* Claims about check mode and about the order of the steps *)

\* the fold of the build that follows a check is complete
FoldAfterCheckDone == FoldDone /\ snapshot.checked # <<>>

\* what the map of the build says about the path that was checked
MapWinner ==
    LET k == get_match_key(snapshot.checked) IN
    IF HasKey(filemap, k) THEN Winner(Get(filemap, k).mod_name) ELSE NotFound

\* C19: the winner check mode prints for a path is the source to which the
\* map of a build of the same inputs attributes the key of the path, not
\* found exactly when the map has no such key; and when the run in check
\* mode has ended, nothing on disk has changed.
C19_CheckAgreesWithBuild ==
    /\ FoldAfterCheckDone => snapshot.winner = MapWinner
    /\ (pc = "exit" /\ args.check # <<>>) =>
          /\ mods = snapshot.mods /\ overlay = snapshot.overlay
          /\ out = snapshot.out

\* check mode named a mod, and the map of the build names the same mod
C19_Witness ==
    /\ FoldAfterCheckDone
    /\ snapshot.winner.found
    /\ snapshot.winner = MapWinner

\* what holds: the two agree whenever the overwrite folder does not provide
\* the key, and check mode changes nothing on disk
CheckAgreesOutsideOverlay ==
    /\ (FoldAfterCheckDone /\ MapWinner.mod_name # OVERWRITE) =>
          snapshot.winner = MapWinner
    /\ (pc = "exit" /\ args.check # <<>>) =>
          /\ mods = snapshot.mods /\ overlay = snapshot.overlay
          /\ out = snapshot.out

\* the place of a control position in the order of the steps of
\* build_data_folder: before the list is read, before the folder analysis,
\* in the fold, before the output directory is made, in the loop over the
\* map, and after it
PhaseRank(p) ==
    CASE p = "parse" -> 1 [] p = "parsed" -> 2 [] p = "fold" -> 3
      [] p = "prepare" -> 4 [] p = "link" -> 5 [] p = "built" -> 6
      [] p = "abort_link" -> 6 [] p = "exit" -> 7

\* one step keeps the order of the two passes
OrderedStep ==
    /\ out' # out => pc \in {"prepare", "link"}
    /\ LinkStarted => filemap' = filemap
    /\ PhaseRank(pc') >= PhaseRank(pc)
    /\ pc' = pc => pc \in {"fold", "link"}
    /\ (pc = "fold" /\ pc' = "fold") => idx' = idx + 1 /\ idx <= Len(enabled_mods)
    /\ (pc = "link" /\ pc' = "link") => idx' >= idx

\* C20: within one build the output root changes only once the fold over
\* the enabled sources and the overwrite folder has finished, the map is
\* never modified once the loop over the map has begun, and the steps are
\* taken in their order, none of them entered again.
C20_TwoPassOrdering == [][OrderedStep]_vars

\* a build with an overwrite folder has folded it, linked a file and
\* reached the summary
C20_Witness ==
    /\ pc = "built"
    /\ acct.overwrite_count >= 1
    /\ created >= 1
    /\ Len(filemap) >= 2

-----------------------------------------------------------------------------
(* Claims about the counters of the fold and about the entries of the map *)

\* the number of records the fold of the enabled mods has written: one for
\* each file of each enabled mod whose directory exists, a mod as often as
\* it is enabled
RECURSIVE ModWrites(_, _)
ModWrites(mds, names) ==
    IF names = <<>> THEN 0
    ELSE Cardinality(ModTree(mds, Head(names)).files) + ModWrites(mds, Tail(names))

\* the number of fold steps that replaced a record: every write that did
\* not add a key
Replacements == ModWrites(mods, enabled_mods) + acct.overwrite_count - Len(filemap)

\* C21: every fold step that replaces a record counts as one override, and
\* the overrides caused by the overwrite folder feed the total as well: the
\* override count of the summary is the number of all replacements, those
\* by enabled mods plus those by the overwrite folder.
C21_OverrideTotals ==
    FoldDone => /\ acct.overrides = Replacements
                /\ acct.size_overridden >= acct.size_overridden_by_overwrite

\* a fold in which a mod replaced a record and the overwrite folder
\* replaced a record
C21_Witness ==
    /\ FoldDone
    /\ acct.overrides >= 1
    /\ acct.overwrite_overrides >= 1
    /\ acct.size_overridden > acct.size_overridden_by_overwrite

\* what holds: the two counts together are the number of replacements, and
\* the byte total includes the bytes displaced by the overwrite folder
OverrideCountsApart ==
    FoldDone => /\ acct.overrides + acct.overwrite_overrides = Replacements
                /\ acct.size_overridden >= acct.size_overridden_by_overwrite

\* the origin of entry i of the map is gone
OriginGone(i) == ~SourceExists(mods, overlay, filemap[i].full_source)

\* entry i is recorded as failed once, is not linked, and no file is at its
\* destination path
FailedCleanly(i) ==
    /\ Cardinality(RecordsOf(i)) = 1
    /\ ~EntryLinked(i)
    /\ filemap[i].normalized_path \notin Paths(out)

\* C22: an entry whose origin no longer exists when it is linked is
\* recorded as failed, no link is made and no file is at its destination,
\* and the pass continues: this holds of every such entry the loop has
\* passed and, once the loop is left, of every such entry of the map.
C22_VanishedOriginFails ==
    LinkStarted =>
        \A i \in DOMAIN filemap :
            (OriginGone(i) /\ (i < idx \/ LoopLeft)) => FailedCleanly(i)

\* the pass went on after an entry whose origin was gone
C22_Witness ==
    /\ pc = "link"
    /\ \E i \in DOMAIN filemap :
          /\ i < idx - 1
          /\ OriginGone(i) /\ FailedCleanly(i)
          /\ EntryLinked(idx - 1)

\* what holds: every entry the loop has passed whose origin was gone
\* failed in this way
PassedVanishedFailed ==
    LinkStarted =>
        \A i \in DOMAIN filemap : (OriginGone(i) /\ i < idx) => FailedCleanly(i)

-----------------------------------------------------------------------------
(* The two cache copies called on their own, with a symbolic link standing *)
(* at the destination ShaderCache.  os.path.exists follows the link and    *)
(* os.path.islink does not: a dangling link does not exist for the first   *)
(* test, so it is never removed, and shutil.copytree then finds the name   *)
(* taken when it makes the destination directory.                          *)

\* sync_shadercache with link lnk at <overwrite>/ShaderCache
sync_shadercache_at(o, ovl, given, lnk) ==
    IF lnk = "none"
    THEN [link |-> "none"] @@ sync_shadercache(o, ovl, given)
    ELSE IF ~given \/ ~IsDir(o, <<ShaderCache>>)
    THEN [overlay |-> ovl, raised |-> FALSE, result |-> FALSE, link |-> lnk]
    ELSE IF lnk = "dangling"
    THEN [overlay |-> ovl, raised |-> TRUE, result |-> FALSE, link |-> lnk]
    ELSE [overlay |-> CopyToOverwrite(o, ovl, <<ShaderCache>>),
          raised |-> FALSE, result |-> TRUE, link |-> "none"]

\* copy_shadercache_to_data with link lnk at <output>/ShaderCache
copy_shadercache_to_data_at(ovl, o, given, lnk) ==
    IF lnk = "none"
    THEN [link |-> "none"] @@ copy_shadercache_to_data(ovl, o, given)
    ELSE IF ~given \/ ~IsDir(ovl, <<ShaderCache>>)
    THEN [out |-> o, raised |-> FALSE, result |-> FALSE, link |-> lnk]
    ELSE IF lnk = "dangling"
    THEN [out |-> o, raised |-> TRUE, result |-> FALSE, link |-> lnk]
    ELSE [out |-> CopyToOutput(ovl, o, <<ShaderCache>>),
          raised |-> FALSE, result |-> TRUE, link |-> "none"]

\* sync_shadercache when shutil.copytree cannot read file unread of the
\* source: the old copy is removed first, copytree copies the other files,
\* collects the error and raises shutil.Error at its end
sync_shadercache_copy_failing(o, ovl, unread) ==
    [overlay |-> CopyToOverwrite([o EXCEPT !.files = @ \ {unread}],
                                 IF ovl.exists THEN Rmtree(ovl, <<ShaderCache>>) ELSE ovl,
                                 <<ShaderCache>>),
     raised |-> TRUE, result |-> FALSE]

\* a directory that can hold a link named ShaderCache: the name is free
NameFree(tree) ==
    tree.exists /\ <<ShaderCache>> \notin tree.dirs \cup Paths(tree)

LinkTarget == Dir({F(<<<<"t">>>>, 3)}, {})
LinkKinds == {"none", "live", "dangling"}

InitSymlink ==
    /\ pc \in {"call_sync", "call_copy"}
    /\ overlay \in MainOverlayTrees \cup {NoDir, EmptyDir}
    /\ out \in MainOutTrees \cup {NoDir, EmptyDir}
    /\ ovw_arg \in BOOLEAN
    /\ links \in [overlay : LinkKinds, out : LinkKinds, target : {NoDir, LinkTarget}]
    /\ links.overlay # "none" => pc = "call_sync" /\ NameFree(overlay)
    /\ links.out # "none" => pc = "call_copy" /\ NameFree(out)
    /\ links.target.exists <=> "live" \in {links.overlay, links.out}
    /\ listText = NoFile /\ mods = <<>>
    /\ NoFold /\ NoLink
    /\ pending = {} /\ original_path = <<>> /\ normalized_path = <<>>
    /\ args = <<>> /\ exit_code = NoExit /\ finished = <<>> /\ steps = {}
    /\ snapshot = [overlay |-> overlay, out |-> out, links |-> links]

\* a call of sync_shadercache(output_dir, overwrite_dir)
CallSync ==
    /\ pc = "call_sync"
    /\ LET r == sync_shadercache_at(out, overlay, ovw_arg, links.overlay) IN
         /\ overlay' = r.overlay
         /\ links' = [links EXCEPT !.overlay = r.link]
         /\ pc' = IF r.raised THEN "raised" ELSE "returned"
         /\ steps' = {IF r.raised THEN "sync_raised" ELSE "sync"}
    /\ UNCHANGED <<listText, mods, ovw_arg, out, foldVars, idx, linkVars, vanished,
                   pending, original_path, normalized_path, args, exit_code,
                   snapshot, finished>>

\* a call of copy_shadercache_to_data(overwrite_dir, output_dir)
CallCopy ==
    /\ pc = "call_copy"
    /\ LET r == copy_shadercache_to_data_at(overlay, out, ovw_arg, links.out) IN
         /\ out' = r.out
         /\ links' = [links EXCEPT !.out = r.link]
         /\ pc' = IF r.raised THEN "raised" ELSE "returned"
         /\ steps' = {IF r.raised THEN "restore_raised" ELSE "restore"}
    /\ UNCHANGED <<envVars, foldVars, idx, linkVars, vanished, pending,
                   original_path, normalized_path, args, exit_code, snapshot,
                   finished>>

\* a call of sync_shadercache in which the copy fails on a file of the
\* ShaderCache of the output root that cannot be read
CallSyncCopyFails ==
    /\ pc = "call_sync"
    /\ links.overlay = "none"
    /\ ovw_arg /\ IsDir(out, <<ShaderCache>>)
    /\ ~(overlay.exists /\ RmtreeRaises(overlay, <<ShaderCache>>))
    /\ \E unread \in {f \in out.files : Below(<<ShaderCache>>, f.path)} :
          overlay' = sync_shadercache_copy_failing(out, overlay, unread).overlay
    /\ pc' = "raised"
    /\ steps' = {"sync_raised", "copy_failed"}
    /\ UNCHANGED <<listText, mods, ovw_arg, out, foldVars, idx, linkVars, vanished,
                   auxVars, args, exit_code, snapshot, finished>>

NextSymlink == CallSync \/ CallCopy \/ CallSyncCopyFails

SpecSymlink == InitSymlink /\ [][NextSymlink]_vars

\* the call is over, it found a link of the kinds at its destination, and
\* it had a cache directory to copy from
CalledOnLink(kinds) ==
    /\ pc \in {"returned", "raised"}
    /\ ovw_arg
    /\ \/ /\ steps \cap {"sync", "sync_raised"} # {}
          /\ snapshot.links.overlay \in kinds
          /\ IsDir(snapshot.out, <<ShaderCache>>)
       \/ /\ steps \cap {"restore", "restore_raised"} # {}
          /\ snapshot.links.out \in kinds
          /\ IsDir(snapshot.overlay, <<ShaderCache>>)

\* the link is gone, a real directory stands in its place, the call did
\* not raise and the directory the link pointed to is as it was
ReplacedByDirectory ==
    /\ pc = "returned"
    /\ links.overlay = "none" /\ links.out = "none"
    /\ links.target = snapshot.links.target
    /\ IF "sync" \in steps THEN IsDir(overlay, <<ShaderCache>>)
                            ELSE IsDir(out, <<ShaderCache>>)

\* C23: in both cache copies, a symbolic link at the destination
\* ShaderCache, dangling or not, is itself removed, its target is left as
\* it was, and the copy makes a real directory without raising
C23_SymlinkAlwaysReplaced ==
    CalledOnLink({"live", "dangling"}) => ReplacedByDirectory

\* a link to an existing directory was replaced by a real directory
C23_Witness ==
    /\ CalledOnLink({"live"}) /\ ReplacedByDirectory
    /\ snapshot.links.target = LinkTarget

\* what holds: a link whose target exists is replaced as described
LiveSymlinkReplaced == CalledOnLink({"live"}) => ReplacedByDirectory

\* what holds: with a dangling link the call raises and the link stays
DanglingSymlinkRaises ==
    CalledOnLink({"dangling"}) => pc = "raised" /\ links = snapshot.links

-----------------------------------------------------------------------------
(* Claims about the destination paths of the map.                          *)

\* str.lower of a destination path, segment by segment
LowerCased(p) == [i \in DOMAIN p |-> Lower(p[i])]

\* the map is looked at as the fold leaves it: no later step writes to it
MapAtRest == pc = "prepare"

\* C24: the lowercased destination path of a record is its match key, so
\* distinct keys never share a destination path, and the materializer never
\* links two entries onto the same output file
C24_DestinationIsKey ==
    /\ MapAtRest =>
          \A i \in DOMAIN filemap :
              /\ LowerCased(filemap[i].normalized_path) = filemap[i].match_key
              /\ \A j \in DOMAIN filemap :
                    filemap[j].normalized_path = filemap[i].normalized_path => j = i
    /\ LoopLeft =>
          \A f, g \in out.files : f.path = g.path => f = g

\* two entries are linked, one of them below a directory whose name was
\* replaced by the canonical spelling
C24_Witness ==
    /\ pc = "built"
    /\ \E i, j \in DOMAIN filemap :
          /\ i # j /\ EntryLinked(i) /\ EntryLinked(j)
          /\ filemap[i].normalized_path # filemap[i].original_path

-----------------------------------------------------------------------------
(* BuildWorker.run on its own: the thread is started on a list file that   *)
(* exists or not.  sys.exit in parse_modlist raises SystemExit, which is   *)
(* not an Exception: the except clause of run does not catch it, and the   *)
(* thread ends without emitting finished_signal.                           *)

WorkerTexts ==
    { TextOf(<< <<"+","A">> >>, TRUE),
      TextOf(<< <<"+","A">>, <<"+">> \o DataFolder >>, TRUE) }

InitWorker ==
    /\ pc = "parse"
    /\ listText \in {File(t) : t \in WorkerTexts} \cup {NoFile}
    /\ \E a \in GuiModTrees \cup {NoDir},
          d \in {NoDir, Dir({F(<<skse>>, 3), F(<<<<"w">>>>, 1)}, {})} :
          mods = (ModA :> a) @@ (DataFolder :> d)
    /\ ovw_arg \in BOOLEAN
    /\ overlay \in {NoDir, Dir({F(<<ShaderCache, <<"c">>>>, 6), F(<<<<"w">>>>, 7)}, {})}
    /\ overlay.exists = ovw_arg
    /\ out = NoDir
    /\ NoFold /\ NoLink /\ NoAux
    /\ args \in [output : {Output(<<Game, Data>>)}, plugins_dest : BOOLEAN]
    /\ exit_code = NoExit
    /\ finished = <<>> /\ steps = {"build"}
    /\ snapshot = [mods |-> mods, overlay |-> overlay, out |-> out]

\* parse_modlist in the worker thread, list file missing: SystemExit passes
\* the except clause and ends run
WorkerSystemExit ==
    /\ pc = "parse"
    /\ ~listText.exists
    /\ pc' = "thread_ended"
    /\ UNCHANGED <<envVars, out, foldVars, idx, linkVars, vanished, auxVars,
                   mainVars>>

NextWorker ==
    \/ WorkerSystemExit
    \/ ParseFile \/ AnalyzeFolders \/ FoldMod \/ FoldOverwrite
    \/ PrepareOutput \/ LinkEntry \/ Summary
    \/ WorkerPostBuild \/ WorkerCaught

SpecWorker == InitWorker /\ [][NextWorker]_vars

\* the thread is scheduled as long as run has not ended: its position, or
\* the index of the loop it is in, moves on
WorkerRunning == pc \notin {"idle", "thread_ended"}
WorkerAdvances ==
    /\ WorkerRunning
    /\ pc' \in {"parsed", "fold", "prepare", "link", "built", "abort_link", "idle",
                "thread_ended"}
    /\ idx' \in {1, idx, idx + 1}

SpecWorkerFair == SpecWorker /\ WF_<<pc, idx>>(WorkerAdvances)

\* C25: every run of BuildWorker.run eventually emits finished_signal, and
\* exactly once, in every outcome, the missing list file included
C25_FinishedSignalledOnce ==
    /\ <>(Len(finished) = 1)
    /\ [](Len(finished) <= 1)

\* a run on a list file that exists has emitted the signal once
C25_Witness ==
    pc = "idle" /\ snapshot.mods[ModA].exists /\ Len(finished) = 1 /\ "summary" \in steps

\* what holds: at most one signal in every run, and exactly one in the
\* end when the list file exists
SignalledOnceWithList ==
    /\ listText.exists => <>(Len(finished) = 1)
    /\ [](Len(finished) <= 1)

\* what holds: no signal is ever emitted when the list file is missing
NoSignalWithoutList == ~listText.exists => [](finished = <<>>)

-----------------------------------------------------------------------------
(* Claims about the command line run as a whole.                           *)

\* entry i was counted as created: the loop has no failure record for it
CountedCreated(i) == RecordsOf(i) = {}

\* C26: at the end of a full build, materialization and restore, every
\* entry counted as created is still in the output root as a link to its
\* origin: the restore neither deletes nor replaces a linked file
C26_CreatedLinksSurviveRestore ==
    FullBuildDone =>
        \A i \in DOMAIN filemap : CountedCreated(i) => EntryLinked(i)

\* a full build whose restore copied the cache and left a linked entry
C26_Witness ==
    /\ FullBuildDone /\ "restore" \in steps
    /\ \E i \in DOMAIN filemap : CountedCreated(i) /\ EntryLinked(i)

\* what holds: the entries whose destination is outside ShaderCache survive
LinksOutsideCacheSurvive ==
    FullBuildDone =>
        \A i \in DOMAIN filemap :
            (CountedCreated(i) /\ ~IsCachePath(filemap[i].normalized_path))
                => EntryLinked(i)

-----------------------------------------------------------------------------
(* Two builds against the same list and mods and against overwrite folders *)
(* that differ only below ShaderCache.  collect_all_folders walks the      *)
(* whole overwrite folder, ShaderCache included, so a directory name found *)
(* only there takes part in the choice of the canonical spellings.         *)

CacheLines == { <<"+","A">>, <<"+","B">> }

CacheModTrees ==
    { Dir({F(<<skse, <<"r">>>>, 1), F(<<<<"w">>>>, 2)}, {}),
      Dir({F(<<Skse, <<"x">>, <<"r">>>>, 3)}, {}) }

CacheOverlayTrees ==
    { Dir({F(<<ShaderCache, <<"c">>>>, 6), F(<<<<"w">>>>, 7)}, {}),
      Dir({F(<<ShaderCache, SKSE, <<"c">>>>, 5), F(<<<<"w">>>>, 7)}, {}),
      Dir({F(<<ShaderCache, <<"x">>, <<"d">>>>, 4), F(<<<<"w">>>>, 7)}, {}),
      Dir({F(<<ShaderCache, <<"X">>, <<"d">>>>, 4), F(<<skse, <<"k">>>>, 1)}, {}),
      Dir({F(<<skse, <<"k">>>>, 1)}, {<<ShaderCache>>}) }

InitCache ==
    /\ pc = "parse"
    /\ listText \in {File(TextOf(ls, TRUE)) : ls \in SeqsUpTo(CacheLines, MaxEntries)}
    /\ mods \in [{ModA, ModB} -> CacheModTrees \cup {NoDir}]
    /\ ovw_arg = TRUE /\ overlay \in CacheOverlayTrees /\ out = NoDir
    /\ NoFold /\ NoLink /\ NoAux
    /\ args = <<>> /\ exit_code = NoExit
    /\ finished = <<>> /\ steps = {}
    /\ snapshot = [mods |-> mods, overlay |-> overlay, out |-> out,
                   filemap |-> <<>>, runs |-> 0]

\* the program is started a second time, on an overwrite folder that is the
\* same outside ShaderCache
BuildOnOtherCache ==
    /\ pc = "prepare"
    /\ snapshot.runs = 0
    /\ \E other \in CacheOverlayTrees :
          /\ RestOf(other) = RestOf(overlay)
          /\ overlay' = other
    /\ snapshot' = [snapshot EXCEPT !.filemap = filemap, !.runs = 1]
    /\ enabled_mods' = <<>> /\ folder_variants' = <<>> /\ folder_map' = <<>>
    /\ filemap' = <<>> /\ warned' = {} /\ acct' = NoAcct
    /\ idx' = 0
    /\ pc' = "parse"
    /\ UNCHANGED <<listText, mods, ovw_arg, out, linkVars, vanished, auxVars, args,
                   exit_code, finished, steps>>

NextCache == ParseFile \/ AnalyzeFolders \/ FoldMod \/ FoldOverwrite \/ BuildOnOtherCache

SpecCache == InitCache /\ [][NextCache]_vars

\* the destination path the map gives to each key
Destinations(fm) ==
    {[match_key |-> fm[i].match_key, normalized_path |-> fm[i].normalized_path] :
        i \in DOMAIN fm}

\* C27: the map does not depend on what the ShaderCache of the overwrite
\* folder holds: two builds that differ only in the files and directory
\* names below it give every key the same destination path
C27_MapIgnoresOverlayCache ==
    SecondFoldDone => Destinations(filemap) = Destinations(snapshot.filemap)

\* two builds on different cache contents that left the same destinations
C27_Witness ==
    /\ SecondFoldDone
    /\ CacheOf(overlay) # CacheOf(snapshot.overlay)
    /\ Len(filemap) >= 2
    /\ Destinations(filemap) = Destinations(snapshot.filemap)

\* what holds: the keys of the map and the origin of each key are the same
\* in the two builds
Origins(fm) ==
    {[match_key |-> fm[i].match_key, full_source |-> fm[i].full_source] : i \in DOMAIN fm}
KeysIgnoreOverlayCache ==
    SecondFoldDone => Origins(filemap) = Origins(snapshot.filemap)

\* what holds: the destinations are the same when the two caches hold the
\* same directory names
DirNames(tree) == {Last(q) : q \in tree.dirs}
MapIgnoresCacheFiles ==
    (SecondFoldDone /\ DirNames(overlay) = DirNames(snapshot.overlay))
        => Destinations(filemap) = Destinations(snapshot.filemap)

-----------------------------------------------------------------------------
(* Claims about a sync that fails.                                         *)

\* sync_shadercache has ended in an exception
SyncFailed == pc = "raised" /\ "sync_raised" \in steps

\* C28: when the copy in sync_shadercache fails, the previous ShaderCache
\* of the overwrite folder is still there with its old contents
C28_FailedSyncKeepsOldCache ==
    SyncFailed =>
        /\ CacheOf(overlay) = CacheOf(snapshot.overlay)
        /\ links.overlay = snapshot.links.overlay

\* the copy failed on a dangling link named ShaderCache, and the overwrite
\* folder is as it was
C28_Witness ==
    /\ SyncFailed
    /\ snapshot.links.overlay = "dangling"
    /\ overlay = snapshot.overlay /\ links = snapshot.links

\* what holds: the overwrite folder is as it was when the sync failed
\* before it removed anything
FailureBeforeRemovalKeepsCache ==
    (SyncFailed /\ "copy_failed" \notin steps) =>
        overlay = snapshot.overlay /\ links = snapshot.links

\* what holds: after a copy that failed on an unreadable file the
\* ShaderCache of the overwrite folder holds files of the output root only
FailedCopyLeavesNewFilesOnly ==
    (SyncFailed /\ "copy_failed" \in steps) =>
        CacheOf(overlay).files \subseteq CacheOf(out).files

-----------------------------------------------------------------------------
(* Claims about the prompt and about the cache across a run.               *)

\* the run ended at the prompt: the output root exists and the answer was
\* not y or yes
Declined ==
    /\ pc = "exit" /\ exit_code = "0"
    /\ "build" \notin steps /\ args.check = <<>>

\* C29: when the output root exists and the deletion is declined, the run
\* exits with status 0 and has modified nothing: the output root and the
\* overwrite folder, its ShaderCache included, are as before
C29_DeclineModifiesNothing ==
    Declined => out = snapshot.out /\ overlay = snapshot.overlay

\* a declined run on an overwrite folder with a ShaderCache that left the
\* disk as it was
C29_Witness ==
    /\ Declined
    /\ IsDir(snapshot.overlay, <<ShaderCache>>)
    /\ out = snapshot.out /\ overlay = snapshot.overlay

\* what holds: a declined run leaves the output root, and the overwrite
\* folder outside ShaderCache, as they were
DeclineKeepsOutputRoot ==
    Declined => out = snapshot.out /\ RestOf(overlay) = RestOf(snapshot.overlay)

\* the run synced the cache, deleted the output root, built and restored
RoundTripDone ==
    /\ FullBuildDone
    /\ {"sync", "rmtree", "restore"} \subseteq steps

\* C30: in a run with an overwrite folder and an output root that holds a
\* ShaderCache directory, once the sync, the deletion, the build and the
\* restore have succeeded, the ShaderCache of the new output root holds the
\* files and contents of the ShaderCache of the old one
C30_CacheRoundTrip ==
    RoundTripDone => CacheOf(out) = CacheOf(snapshot.out)

\* a round trip over a build that linked a file of a mod into ShaderCache
\* and over an overwrite folder whose own ShaderCache was different
C30_Witness ==
    /\ RoundTripDone
    /\ CacheOf(snapshot.out).files # {}
    /\ CacheOf(snapshot.overlay) # CacheOf(snapshot.out)
    /\ \E i \in DOMAIN filemap :
          CountedCreated(i) /\ IsCachePath(filemap[i].normalized_path)
    /\ CacheOf(out) = CacheOf(snapshot.out)
====
